---- MODULE Spec2Model ----
(***************************************************************************)
(* Model of the recipe-music-video MIDI generation core:                   *)
(*   note-utils.js, config/pattern-strategies.js, the pattern library,     *)
(*   pattern-registry.js and midi-factory.js (orchestrator, validator and  *)
(*   the createMidi* entry points of index.js).                            *)
(*                                                                         *)
(* Numbers.  Times are integers counted in ticks of 1/TicksPerSecond       *)
(* second; every input of the model is chosen so that the products the     *)
(* code forms (60/tempo, x0.95, x0.9, late_entry fractions ...) are exact  *)
(* in ticks.  Velocities are kept as the numerator v of v/127.  Fractions  *)
(* of the configuration table are kept as percentages.                     *)
(***************************************************************************)
EXTENDS Integers, Sequences, FiniteSets, TLC

\* ------------------------------------------------------------------------
\* Bounds of the model
\* ------------------------------------------------------------------------
MaxTracks == 2
MaxSections == 2

TicksPerSecond == 10000

\* The value "undefined" of an optional numeric field.
ABSENT == -1

\* The pitch undefined/NaN (notes[notes.length - 1] of an empty theme, notes[0]
\* of a value that is no array).
NotANumber == -100000

\* ------------------------------------------------------------------------
\* State
\* ------------------------------------------------------------------------
VARIABLES
  spec,        \* the specification handed to the entry point
  entry,       \* the entry point that was called ("none" before the call)
  pc,          \* Start, Init, PerTrack, PerSection, MetadataTrack, Done;
               \* Rejected (invalid specification), Thrown (a TypeError left
               \* the call), Hung (a fill loop that never exits)
  ti, si,      \* index of the current track and of the current section
  out,         \* midi.tracks: the output tracks, each with the notes handed
               \* to track.addNote, in call order
  validation,  \* the result of validateSpec, once it was called
  err,         \* the error that left the entry point ("" if none)
  events,      \* what processSection did for every section, in order
  runs,        \* number of the current run on this specification
  firstOut,    \* the output of the first run, kept for the second
  entropy      \* state of the world outside the specification (clock,
               \* Math.random ...); the code never reads it

vars == <<spec, entry, pc, ti, si, out, validation, err, events, runs,
          firstOut, entropy>>

\* ------------------------------------------------------------------------
\* note-utils.js
\* ------------------------------------------------------------------------
\* The properties every object literal inherits from Object.prototype: a
\* lookup table[name] or `name in table` finds them like own properties.
InheritedFunctions == {"constructor", "toString", "hasOwnProperty", "valueOf"}
InheritedProperties == InheritedFunctions \cup {"__proto__"}

NOTE_NAMES == <<"C", "C#", "D", "D#", "E", "F", "F#", "G", "G#", "A", "A#", "B">>

NOTE_ALIASES ==
  ("Db" :> "C#") @@ ("Eb" :> "D#") @@ ("Fb" :> "E") @@ ("Gb" :> "F#") @@
  ("Ab" :> "G#") @@ ("Bb" :> "A#") @@ ("Cb" :> "B") @@ ("E#" :> "F") @@
  ("B#" :> "C")

SCALE_INTERVALS ==
  [ major            |-> <<0, 2, 4, 5, 7, 9, 11>>,
    minor            |-> <<0, 2, 3, 5, 7, 8, 10>>,
    natural_minor    |-> <<0, 2, 3, 5, 7, 8, 10>>,
    harmonic_minor   |-> <<0, 2, 3, 5, 7, 8, 11>>,
    melodic_minor    |-> <<0, 2, 3, 5, 7, 9, 11>>,
    pentatonic       |-> <<0, 2, 4, 7, 9>>,
    pentatonic_minor |-> <<0, 3, 5, 7, 10>>,
    chromatic        |-> <<0, 1, 2, 3, 4, 5, 6, 7, 8, 9, 10, 11>>,
    dorian           |-> <<0, 2, 3, 5, 7, 9, 10>>,
    phrygian         |-> <<0, 1, 3, 5, 7, 8, 10>>,
    lydian           |-> <<0, 2, 4, 6, 7, 9, 11>>,
    mixolydian       |-> <<0, 2, 4, 5, 7, 9, 10>>,
    locrian          |-> <<0, 1, 3, 5, 6, 8, 10>> ]

\* Constructors of the values a note field may hold:
\*   a number, a name "<letter><accidental><octave>", or any other value.
Num(n) == [kind |-> "num", n |-> n]
Name(letter, acc, octave) ==
  [kind |-> "name", letter |-> letter, acc |-> acc, octave |-> octave]
BadNote == [kind |-> "bad"]

\* Results of a call that may throw.
Ok(v) == [ok |-> TRUE, v |-> v]
Throw == [ok |-> FALSE, v |-> 0]

\* Array.prototype.indexOf, 1-based; 0 when absent (the code's -1).
IndexOf(seq, e) ==
  IF \E i \in 1..Len(seq) : seq[i] = e
    THEN CHOOSE i \in 1..Len(seq) : seq[i] = e /\ \A j \in 1..(i - 1) : seq[j] # e
    ELSE 0

Range(seq) == {seq[i] : i \in 1..Len(seq)}

Min(a, b) == IF a < b THEN a ELSE b
Max(a, b) == IF a > b THEN a ELSE b
Abs(a) == IF a < 0 THEN -a ELSE a

\* Array.prototype.sort((a, b) => a - b) applied to a duplicate-free list.
RECURSIVE SortAscending(_)
SortAscending(S) ==
  IF S = {} THEN <<>>
  ELSE LET m == CHOOSE x \in S : \A y \in S : x <= y
       IN <<m>> \o SortAscending(S \ {m})

\* A string, as the list of its characters.
Str(chars) == [kind |-> "str", chars |-> chars]

Digit == <<"0", "1", "2", "3", "4", "5", "6", "7", "8", "9">>

\* String(i) for an integer i
RECURSIVE DecimalChars(_)
DecimalChars(i) ==
  IF i < 0 THEN <<"-">> \o DecimalChars(-i)
  ELSE IF i < 10 THEN <<Digit[i + 1]>>
  ELSE DecimalChars(i \div 10) \o <<Digit[(i % 10) + 1]>>

\* parseInt(digits, 10) for a non-empty list of digits
RECURSIVE ParseDigits(_)
ParseDigits(digits) ==
  IF Len(digits) = 0 THEN 0
  ELSE ParseDigits(SubSeq(digits, 1, Len(digits) - 1)) * 10
       + (IndexOf(Digit, digits[Len(digits)]) - 1)

IsDigits(chars) ==
  Len(chars) > 0 /\ \A i \in 1..Len(chars) : IndexOf(Digit, chars[i]) # 0

\* Variant: the octave takes no sign, /^([A-Ga-g][#b]?)(\d+)$/.
MatchOctave_unsigned(chars) ==
  IF IsDigits(chars) THEN Ok(ParseDigits(chars)) ELSE Throw

\* (-?\d+)$ and parseInt(match[2], 10)
MatchOctave(chars) ==
  IF IsDigits(chars) THEN Ok(ParseDigits(chars))
  ELSE IF Len(chars) > 1 /\ chars[1] = "-" /\ IsDigits(Tail(chars))
    THEN Ok(-ParseDigits(Tail(chars)))
  ELSE Throw

\* noteName.match(/^([A-Ga-g][#b]?)(-?\d+)$/): the name with its letter,
\* accidental and octave, or BadNote when the string does not match.
MatchNoteName(chars) ==
  IF Len(chars) < 2 THEN BadNote
  ELSE IF chars[1] \notin {"A", "B", "C", "D", "E", "F", "G",
                           "a", "b", "c", "d", "e", "f", "g"} THEN BadNote
  ELSE LET acc == IF chars[2] \in {"#", "b"} THEN chars[2] ELSE ""
           octave == MatchOctave(SubSeq(chars, IF acc = "" THEN 2 ELSE 3, Len(chars)))
       IN IF octave.ok THEN Name(chars[1], acc, octave.v) ELSE BadNote

\* Variant: the letter is taken as written.
ToUpperCase_asis(letter) == letter

\* match[1].charAt(0).toUpperCase()
ToUpperCase(letter) ==
  CASE letter = "a" -> "A" [] letter = "b" -> "B" [] letter = "c" -> "C"
    [] letter = "d" -> "D" [] letter = "e" -> "E" [] letter = "f" -> "F"
    [] letter = "g" -> "G" [] OTHER -> letter

\* The part of noteToMidi after the match: the alias, NOTE_NAMES.indexOf and
\* the range check.
matchToMidi(match) ==
  IF match.kind # "name" THEN Throw
  ELSE
    LET spelled == ToUpperCase(match.letter) \o match.acc
        note == IF spelled \in DOMAIN NOTE_ALIASES THEN NOTE_ALIASES[spelled]
                ELSE spelled
        noteIndex == IndexOf(NOTE_NAMES, note)
        midi == (match.octave + 1) * 12 + (noteIndex - 1)
    IN IF noteIndex = 0 THEN Throw
       ELSE IF midi < 0 \/ midi > 127 THEN Throw
       ELSE Ok(midi)

noteToMidi(noteName) ==
  IF noteName.kind = "num" THEN
    IF noteName.n < 0 \/ noteName.n > 127 THEN Throw ELSE Ok(noteName.n)
  ELSE matchToMidi(IF noteName.kind = "str" THEN MatchNoteName(noteName.chars)
                   ELSE noteName)

\* The characters of the entries of NOTE_NAMES.
NoteNameChars ==
  ("C" :> <<"C">>) @@ ("C#" :> <<"C", "#">>) @@ ("D" :> <<"D">>) @@
  ("D#" :> <<"D", "#">>) @@ ("E" :> <<"E">>) @@ ("F" :> <<"F">>) @@
  ("F#" :> <<"F", "#">>) @@ ("G" :> <<"G">>) @@ ("G#" :> <<"G", "#">>) @@
  ("A" :> <<"A">>) @@ ("A#" :> <<"A", "#">>) @@ ("B" :> <<"B">>)

\* return NOTE_NAMES[noteIndex] + octave
midiToNote(midiNote) ==
  IF midiNote < 0 \/ midiNote > 127 THEN Throw
  ELSE LET noteIndex == midiNote % 12
           octave == (midiNote \div 12) - 1
       IN Ok(Str(NoteNameChars[NOTE_NAMES[noteIndex + 1]] \o DecimalChars(octave)))

\* getScale(root, scaleType, octaves = 4) for a root that is already a pitch.
\* SCALE_INTERVALS[scaleType] || SCALE_INTERVALS.major also finds the inherited
\* properties, which cannot be iterated: for (const interval of intervals) throws.
getScale(rootMidi, scaleType) ==
  LET intervals == IF scaleType \in DOMAIN SCALE_INTERVALS
                   THEN SCALE_INTERVALS[scaleType] ELSE SCALE_INTERVALS.major
      rootPitchClass == rootMidi % 12
      startOctave == (rootMidi \div 12) - (4 \div 2)
      endOctave == startOctave + 4
      notes == { octave * 12 + rootPitchClass + intervals[i] :
                   octave \in startOctave..endOctave, i \in 1..Len(intervals) }
  IN IF scaleType \in InheritedProperties THEN Throw
     ELSE Ok(SortAscending({note \in notes : note >= 0 /\ note <= 127}))

\* getPitchesInRange(range, scale); scale = <<>> stands for null.
getPitchesInRange(range, scale) ==
  LET lowMidi == noteToMidi(range.low)
      highMidi == noteToMidi(range.high)
  IN IF ~lowMidi.ok \/ ~highMidi.ok THEN Throw
     ELSE IF lowMidi.v > highMidi.v THEN Throw
     ELSE IF Len(scale) > 0
       THEN Ok(SelectSeq(scale, LAMBDA note : note >= lowMidi.v /\ note <= highMidi.v))
       ELSE Ok([i \in 1..(highMidi.v - lowMidi.v + 1) |-> lowMidi.v + i - 1])

\* Index (1-based) of the scale note nearest to currentNote, first one on ties.
NearestIndex(scale, currentNote) ==
  CHOOSE i \in 1..Len(scale) :
    /\ \A j \in 1..Len(scale) : Abs(scale[i] - currentNote) <= Abs(scale[j] - currentNote)
    /\ \A j \in 1..(i - 1) : Abs(scale[j] - currentNote) > Abs(scale[i] - currentNote)

getScaleStep(currentNote, scale, steps) ==
  LET found == IndexOf(scale, currentNote)
      currentIndex == IF found # 0 THEN found ELSE NearestIndex(scale, currentNote)
      newIndex == currentIndex + steps
  IN IF newIndex < 1 THEN scale[1]
     ELSE IF newIndex > Len(scale) THEN scale[Len(scale)]
     ELSE scale[newIndex]

getContourDirection(notes) ==
  IF Len(notes) < 2 THEN 0
  ELSE LET totalMovement == notes[Len(notes)] - notes[1]
       IN IF totalMovement > 0 THEN 1
          ELSE IF totalMovement < 0 THEN -1 ELSE 0

\* buildChord(root, scale, "triad")
buildChord(root, scale) ==
  LET rootIndex == IndexOf(scale, root)
  IN IF rootIndex = 0 THEN <<root, root + 4, root + 7>>
     ELSE <<scale[rootIndex]>>
          \o (IF rootIndex + 2 <= Len(scale) THEN <<scale[rootIndex + 2]>> ELSE <<>>)
          \o (IF rootIndex + 4 <= Len(scale) THEN <<scale[rootIndex + 4]>> ELSE <<>>)

\* ------------------------------------------------------------------------
\* config/pattern-strategies.js
\*   durationFactor, appearTime, noteValue ... are percentages (0.95 -> 95);
\*   sustainGap is in ticks.
\* ------------------------------------------------------------------------
PATTERN_STRATEGIES ==
  [ rhythmicSpacing |->
      [ breathing             |-> [interval |-> 300, humanize |-> 10],
        very_sparse_breathing |-> [interval |-> 400, humanize |-> 10],
        moderate_breathing    |-> [interval |-> 200, humanize |-> 8],
        active_breathing      |-> [interval |-> 100, humanize |-> 5],
        accents               |-> [interval |-> 400, humanize |-> 30] ],
    patterns |->
      [ thematic_statement  |-> [durationFactor |-> 95, velocityModifier |-> 0],
        thematic_fragmented |-> [fragmentLength |-> 3, sequenceInterval |-> 2,
                                 durationFactor |-> 95, velocityModifier |-> 0],
        thematic_extended   |-> [durationFactor |-> 95, velocityModifier |-> 0,
                                 extensionStepSize |-> 1],
        thematic_inverted   |-> [durationFactor |-> 95, velocityModifier |-> 0],
        thematic_retrograde |-> [durationFactor |-> 95, velocityModifier |-> 0],
        gentle_breathing    |-> [noteDuration |-> 120, stepwise |-> TRUE,
                                 maxInterval |-> 2, velocityModifier |-> 0],
        melodic_counterpoint |-> [noteInterval |-> 75, noteDuration |-> 90,
                                  stepwiseBias |-> 70, leapProbability |-> 20,
                                  directionChangeEvery |-> 7, startInRange |-> 40,
                                  velocityModifier |-> -10],
        foundation_pedal    |-> [quartilePosition |-> 25,
                                 sustainGap |-> (5 * TicksPerSecond) \div 100,
                                 velocityModifier |-> -25],
        decorative_flourish |-> [noteCount |-> 4, appearTime |-> 65,
                                 noteValue |-> 25, direction |-> "ascending",
                                 durationFactor |-> 80, velocityModifier |-> 5],
        minimal_accents     |-> [minInterval |-> 3 * TicksPerSecond,
                                 maxInterval |-> 4 * TicksPerSecond,
                                 duration |-> (3 * TicksPerSecond) \div 10,
                                 durationFactor |-> 40, velocityModifier |-> 0],
        harmonic_arpeggio   |-> [noteValue |-> 50, pattern |-> <<0, 2, 1, 2>>,
                                 durationFactor |-> 90, velocityModifier |-> -12] ] ]

\* x * (pct / 100)
Pct(x, pct) == (x * pct) \div 100

\* Variant: a pattern starts where the notes already in the track end.
calculateLateEntryStart_cursor(section) ==
  IF out # <<>> /\ out[Len(out)].notes # <<>>
  THEN LET last == out[Len(out)].notes[Len(out[Len(out)].notes)]
       IN Max(section.start_time, last.time + last.duration)
  ELSE section.start_time

\* Variant: late_entry is used as it is given, above 100 percent too.
calculateLateEntryStart_unclamped(section) ==
  IF section.late_entry = ABSENT \/ section.late_entry <= 0 THEN section.start_time
  ELSE section.start_time + Pct(section.end_time - section.start_time, section.late_entry)

\* section.late_entry is a percentage, ABSENT when the field is undefined.
calculateLateEntryStart(section) ==
  IF section.late_entry = ABSENT \/ section.late_entry <= 0 THEN section.start_time
  ELSE LET clampedLateEntry == Min(100, Max(0, section.late_entry))
           duration == section.end_time - section.start_time
       IN section.start_time + Pct(duration, clampedLateEntry)

applyVelocityModifier(baseVelocity, modifier) ==
  Max(1, Min(127, baseVelocity + modifier))

\* const quarterNote = 60 / tempo
QuarterNote(tempo) == (60 * TicksPerSecond) \div tempo

\* const { velocity_avg = d } = section
VelocityAvg(section, d) ==
  IF section.velocity_avg = ABSENT THEN d ELSE section.velocity_avg

\* The argument of track.addNote: velocity is the numerator of velocity/127.
Note(midi, time, duration, velocity) ==
  [midi |-> midi, time |-> time, duration |-> duration, velocity |-> velocity]

\* What one call of a pattern's apply() does:
\*   notes  - the notes handed to track.addNote, in call order
\*   thrown - apply() raised an error (after adding the notes)
\*   hung   - apply() never returns: its fill loop cannot exit
\*   iters  - iterations of the fill loop
Applied(notes, iters) == [notes |-> notes, thrown |-> FALSE, hung |-> FALSE, iters |-> iters]
Raised == [notes |-> <<>>, thrown |-> TRUE, hung |-> FALSE, iters |-> 0]
Hangs == [notes |-> <<>>, thrown |-> FALSE, hung |-> TRUE, iters |-> 0]

\* ------------------------------------------------------------------------
\* Themes.  notes and rhythm are [kind, items] with kind "array", "object"
\* (a value that is no array, as {}) or "absent" (undefined).
\* ------------------------------------------------------------------------
Arr(items) == [kind |-> "array", items |-> items]
NoArray == [kind |-> "object", items |-> <<>>]
Undefined == [kind |-> "absent", items |-> <<>>]

\* rhythm[index] || 1   (index 1-based)
RhythmAt(rhythm, index) ==
  IF rhythm.kind = "array" /\ index <= Len(rhythm.items) /\ rhythm.items[index] # 0
    THEN rhythm.items[index] ELSE 1

RECURSIVE SumSeq(_)
SumSeq(seq) == IF seq = <<>> THEN 0 ELSE Head(seq) + SumSeq(Tail(seq))

Reverse(seq) == [i \in 1..Len(seq) |-> seq[Len(seq) + 1 - i]]

\* The forEach loop shared by thematic_statement, thematic_retrograde,
\* thematic_inverted and the first step of thematic_extended: a note that
\* would overrun end_time is skipped and does not advance currentTime.
RECURSIVE ThemeForEach(_, _, _, _, _, _, _, _, _)
ThemeForEach(pitches, rhythm, index, currentTime, quarterNote, durationFactor, end_time, velocity, acc) ==
  IF index > Len(pitches) THEN [notes |-> acc, currentTime |-> currentTime]
  ELSE
    LET beatDuration == RhythmAt(rhythm, index)
        duration == beatDuration * quarterNote
    IN IF currentTime + Pct(duration, durationFactor) > end_time
       THEN ThemeForEach(pitches, rhythm, index + 1, currentTime, quarterNote,
                         durationFactor, end_time, velocity, acc)
       ELSE ThemeForEach(pitches, rhythm, index + 1, currentTime + duration,
                         quarterNote, durationFactor, end_time, velocity,
                         Append(acc, Note(pitches[index], currentTime,
                                          Pct(duration, durationFactor), velocity)))

\* if (!theme || !theme.notes || !theme.rhythm) throw
ThemeMissing(theme) ==
  ~theme.present \/ theme.notes.kind = "absent" \/ theme.rhythm.kind = "absent"

Apply_thematic_statement(section, theme, tempo, scale, pitches) ==
  IF ThemeMissing(theme) THEN Raised
  ELSE IF theme.notes.kind # "array" THEN Raised    \* notes.forEach is no function
  ELSE
    LET config == PATTERN_STRATEGIES.patterns.thematic_statement
        startTime == calculateLateEntryStart(section)
        adjustedVelocity ==
          applyVelocityModifier(VelocityAvg(section, 80), config.velocityModifier)
        r == ThemeForEach(theme.notes.items, theme.rhythm, 1, startTime,
                          QuarterNote(tempo), config.durationFactor,
                          section.end_time, adjustedVelocity, <<>>)
    IN Applied(r.notes, 0)

Apply_thematic_retrograde(section, theme, tempo, scale, pitches) ==
  IF ThemeMissing(theme) THEN Raised
  ELSE IF theme.notes.kind # "array" \/ theme.rhythm.kind # "array"
    THEN Raised                                     \* [...x] of a non-iterable
  ELSE
    LET config == PATTERN_STRATEGIES.patterns.thematic_retrograde
        startTime == calculateLateEntryStart(section)
        adjustedVelocity ==
          applyVelocityModifier(VelocityAvg(section, 80), config.velocityModifier)
        retrogradeNotes == Reverse(theme.notes.items)
        retrogradeRhythm == Arr(Reverse(theme.rhythm.items))
        r == ThemeForEach(retrogradeNotes, retrogradeRhythm, 1, startTime,
                          QuarterNote(tempo), config.durationFactor,
                          section.end_time, adjustedVelocity, <<>>)
    IN Applied(r.notes, 0)

\* invertedNotes[i] = notes[0] - (notes[i] - notes[0]), clamped to [0,127]
\* when played.
InvertedNotes(notes) ==
  [i \in 1..Len(notes) |-> Max(0, Min(127, 2 * notes[1] - notes[i]))]

Apply_thematic_inverted(section, theme, tempo, scale, pitches) ==
  IF ThemeMissing(theme) THEN Raised
  ELSE IF theme.notes.kind = "array" /\ Len(theme.notes.items) < 2 THEN Raised
  ELSE
    LET config == PATTERN_STRATEGIES.patterns.thematic_inverted
        startTime == calculateLateEntryStart(section)
        adjustedVelocity ==
          applyVelocityModifier(VelocityAvg(section, 80), config.velocityModifier)
        \* notes that is no array: length is undefined, invertedNotes = [notes[0]]
        invertedNotes == IF theme.notes.kind = "array"
                         THEN InvertedNotes(theme.notes.items) ELSE <<NotANumber>>
        r == ThemeForEach(invertedNotes, theme.rhythm, 1,
                          startTime, QuarterNote(tempo), config.durationFactor,
                          section.end_time, adjustedVelocity, <<>>)
    IN Applied(r.notes, 0)

\* ---- thematic_fragmented ------------------------------------------------
\* fragmentRhythm.reduce((sum, r) => sum + r * quarterNote, 0)
FragmentDuration(fragmentRhythm, quarterNote) == SumSeq(fragmentRhythm) * quarterNote

\* currentTime after the notes 1..index-1 of one repetition: every note
\* advances it by (fragmentRhythm[i] || 1) * quarterNote.
RECURSIVE FragmentOffset(_, _, _)
FragmentOffset(fragmentRhythm, quarterNote, index) ==
  IF index <= 1 THEN 0
  ELSE FragmentOffset(fragmentRhythm, quarterNote, index - 1)
       + RhythmAt(Arr(fragmentRhythm), index - 1) * quarterNote

\* Variant: a transposed pitch outside [0,127] is clamped, not left out.
FragmentNotes_clamped(fragmentNotes, fragmentRhythm, index, currentTime, transposition, quarterNote, durationFactor, velocity) ==
  [i \in 1..(Len(fragmentNotes) - index + 1) |->
     Note(Max(0, Min(127, fragmentNotes[index + i - 1] + transposition)),
          currentTime + FragmentOffset(fragmentRhythm, quarterNote, index + i - 1),
          Pct(RhythmAt(Arr(fragmentRhythm), index + i - 1) * quarterNote, durationFactor),
          velocity)]

\* The notes one repetition adds: a transposed pitch outside [0,127] is not
\* added, its time is still consumed.
RECURSIVE FragmentNotes(_, _, _, _, _, _, _, _)
FragmentNotes(fragmentNotes, fragmentRhythm, index, currentTime, transposition, quarterNote, durationFactor, velocity) ==
  IF index > Len(fragmentNotes) THEN <<>>
  ELSE
    LET duration == RhythmAt(Arr(fragmentRhythm), index) * quarterNote
        transposedPitch == fragmentNotes[index] + transposition
        time == currentTime + FragmentOffset(fragmentRhythm, quarterNote, index)
        rest == FragmentNotes(fragmentNotes, fragmentRhythm, index + 1, currentTime,
                              transposition, quarterNote, durationFactor, velocity)
    IN IF transposedPitch >= 0 /\ transposedPitch <= 127
       THEN <<Note(transposedPitch, time, Pct(duration, durationFactor), velocity)>>
            \o rest
       ELSE rest

\* while (currentTime + fragmentDuration <= end_time) { ...; repetition++ }
\* for a fragment that advances currentTime (advance > 0).
RECURSIVE FragmentLoop(_, _, _, _, _, _, _, _, _, _, _)
FragmentLoop(fragmentNotes, fragmentRhythm, fragmentDuration, advance, currentTime, repetition, sequence, quarterNote, end_time, velocity, acc) ==
  IF ~(currentTime + fragmentDuration <= end_time)
  THEN Applied(acc, repetition)
  ELSE
    LET config == PATTERN_STRATEGIES.patterns.thematic_fragmented
        transposition == IF sequence THEN repetition * config.sequenceInterval ELSE 0
    IN FragmentLoop(fragmentNotes, fragmentRhythm, fragmentDuration, advance,
                    currentTime + advance, repetition + 1, sequence, quarterNote,
                    end_time, velocity,
                    acc \o FragmentNotes(fragmentNotes, fragmentRhythm, 1, currentTime,
                                         transposition, quarterNote,
                                         config.durationFactor, velocity))

Apply_thematic_fragmented(section, theme, tempo, scale, pitches) ==
  LET config == PATTERN_STRATEGIES.patterns.thematic_fragmented
      fragmentLength == config.fragmentLength
  IN
  IF ~theme.present \/ theme.notes.kind = "absent"
     \/ Len(theme.notes.items) < fragmentLength
  THEN Raised
  ELSE IF theme.rhythm.kind # "array" THEN Raised    \* rhythm.slice is no function
  ELSE
    LET startTime == calculateLateEntryStart(section)
        adjustedVelocity ==
          applyVelocityModifier(VelocityAvg(section, 80), config.velocityModifier)
        fragmentNotes == SubSeq(theme.notes.items, 1, fragmentLength)
        fragmentRhythm ==
          SubSeq(theme.rhythm.items, 1, Min(fragmentLength, Len(theme.rhythm.items)))
        quarterNote == QuarterNote(tempo)
        fragmentDuration == FragmentDuration(fragmentRhythm, quarterNote)
        advance == FragmentOffset(fragmentRhythm, quarterNote, fragmentLength + 1)
    IN IF startTime + fragmentDuration <= section.end_time /\ advance <= 0
       THEN Hangs   \* the loop condition stays true: currentTime never grows
       ELSE FragmentLoop(fragmentNotes, fragmentRhythm, fragmentDuration, advance,
                         startTime, 0, section.sequence, quarterNote,
                         section.end_time, adjustedVelocity, <<>>)

\* ---- thematic_extended --------------------------------------------------
\* const avgRhythm = sum / length; (avgRhythm || 1) * quarterNote
ExtensionDuration(rhythm, quarterNote) ==
  IF Len(rhythm) = 0 \/ SumSeq(rhythm) = 0 THEN quarterNote
  ELSE (SumSeq(rhythm) * quarterNote) \div Len(rhythm)

\* One step of the extension: a scale step, or a whole tone without scale.
ExtensionStep(currentPitch, scale, stepDirection) ==
  LET extensionStepSize == PATTERN_STRATEGIES.patterns.thematic_extended.extensionStepSize
  IN IF Len(scale) > 0
     THEN IF currentPitch = NotANumber
          THEN scale[1]    \* indexOf = -1, no nearest note: index -1 + 1
          ELSE getScaleStep(currentPitch, scale, stepDirection * extensionStepSize)
     ELSE IF currentPitch = NotANumber THEN NotANumber
          ELSE currentPitch + stepDirection * 2

\* while (currentTime + extensionDuration * durationFactor <= end_time)
RECURSIVE ExtensionLoop(_, _, _, _, _, _, _, _, _)
ExtensionLoop(currentTime, currentPitch, scale, stepDirection, extensionDuration, end_time, velocity, acc, iters) ==
  LET durationFactor == PATTERN_STRATEGIES.patterns.thematic_extended.durationFactor
  IN
  IF ~(currentTime + Pct(extensionDuration, durationFactor) <= end_time)
  THEN Applied(acc, iters)
  ELSE
    LET nextPitch == ExtensionStep(currentPitch, scale, stepDirection)
    IN IF nextPitch # NotANumber /\ (nextPitch < 0 \/ nextPitch > 127)
       THEN Applied(acc, iters + 1)        \* break
       ELSE ExtensionLoop(currentTime + extensionDuration, nextPitch, scale,
                          stepDirection, extensionDuration, end_time, velocity,
                          Append(acc, Note(nextPitch, currentTime,
                                           Pct(extensionDuration, durationFactor),
                                           velocity)),
                          iters + 1)

Apply_thematic_extended(section, theme, tempo, scale, pitches) ==
  IF ThemeMissing(theme) THEN Raised
  ELSE IF theme.notes.kind # "array" THEN Raised    \* notes.forEach is no function
  ELSE
    LET config == PATTERN_STRATEGIES.patterns.thematic_extended
        notes == theme.notes.items
        rhythm == theme.rhythm.items
        startTime == calculateLateEntryStart(section)
        adjustedVelocity ==
          applyVelocityModifier(VelocityAvg(section, 80), config.velocityModifier)
        quarterNote == QuarterNote(tempo)
        played == ThemeForEach(notes, theme.rhythm, 1, startTime, quarterNote,
                               config.durationFactor, section.end_time,
                               adjustedVelocity, <<>>)
        direction == getContourDirection(notes)
        stepDirection == IF direction = 0 THEN 1 ELSE direction
        lastPitch == IF Len(notes) = 0 THEN NotANumber ELSE notes[Len(notes)]
        extensionDuration == ExtensionDuration(rhythm, quarterNote)
        loopEntered ==
          played.currentTime + Pct(extensionDuration, config.durationFactor)
            <= section.end_time
    IN IF theme.rhythm.kind # "array"               \* rhythm.reduce is no function
       THEN [notes |-> played.notes, thrown |-> TRUE, hung |-> FALSE, iters |-> 0]
       ELSE IF loopEntered /\ extensionDuration <= 0
          /\ (Len(scale) > 0 \/ lastPitch = NotANumber)
       THEN Hangs   \* currentTime never grows and no step leaves [0,127]
       ELSE ExtensionLoop(played.currentTime, lastPitch, scale, stepDirection,
                          extensionDuration, section.end_time, adjustedVelocity,
                          played.notes, 0)

\* ------------------------------------------------------------------------
\* The seeded generator of the procedural patterns
\*   let seed = Math.floor(startTime * 1000) % 1000;
\*   seed = (seed * 1103515245 + 12345) % 2147483648; return seed / 2147483648
\* The model keeps the low 10 bits of the generator (modulus 1024, multiplier
\* and increment reduced modulo 1024): its draws are not the code's numbers,
\* but they are, as in the code, a function of the seed alone.
\* ------------------------------------------------------------------------
RandMod == 1024
RandMul == 621
RandInc == 57

\* Variant: the seed also depends on the state of the outside world.
SeedOf_clock(startTime) ==
  (((startTime * 1000) \div TicksPerSecond) + 499 * entropy) % 1000

\* Math.floor(startTime * 1000) % 1000
SeedOf(startTime) == ((startTime * 1000) \div TicksPerSecond) % 1000

\* The new seed after one call of pseudoRandom(); the call returns it / RandMod.
pseudoRandom(seed) == (seed * RandMul + RandInc) % RandMod

\* Math.floor(r * n) for the draw r = seed / RandMod
FloorScaled(seed, n) == (seed * n) \div RandMod

\* r < pct / 100 for the draw r = seed / RandMod
DrawBelow(seed, pct) == seed * 100 < pct * RandMod

\* humanizeValue(value, humanize, randomFn) for the draw randomFn() = seed / RandMod
\* (value is a multiple of 100 ticks; the result is rounded down to a tick)
humanizeValue(value, humanize, seed) ==
  IF humanize <= 0 THEN value
  ELSE value + ((value \div 100) * (2 * seed - RandMod) * humanize) \div RandMod

\* ---- foundation_pedal -----------------------------------------------------
Apply_foundation_pedal(section, theme, tempo, scale, pitches) ==
  LET config == PATTERN_STRATEGIES.patterns.foundation_pedal
      startTime == calculateLateEntryStart(section)
      quartileIndex == Pct(Len(pitches), config.quartilePosition)
      low == IF section.pitch_range.present
             THEN noteToMidi(section.pitch_range.low) ELSE Throw
      duration == section.end_time - startTime - config.sustainGap
      adjustedVelocity ==
        applyVelocityModifier(VelocityAvg(section, 80), config.velocityModifier)
      minDuration == TicksPerSecond \div 10
      pedal(pedalNote) ==
        Applied(<<Note(pedalNote, startTime, Max(minDuration, duration),
                       adjustedVelocity)>>, 0)
  IN IF Len(pitches) > 0 THEN pedal(pitches[Max(0, quartileIndex) + 1])
     ELSE IF section.pitch_range.present
       THEN IF low.ok THEN pedal(low.v) ELSE Raised
     ELSE IF Len(scale) > 0 THEN pedal(scale[1])
     ELSE pedal(36)

\* ---- silence --------------------------------------------------------------
Apply_silence(section, theme, tempo, scale, pitches) == Applied(<<>>, 0)

\* ---- pitch pool of the breathing and counterpoint patterns ----------------
\* let availablePitches = pitches.length > 0 ? pitches : scale;
\* if empty: every pitch from pitch_range.low to .high, or 48..72
AvailablePitches(section, scale, pitches) ==
  IF Len(pitches) > 0 THEN Ok(pitches)
  ELSE IF Len(scale) > 0 THEN Ok(scale)
  ELSE IF ~section.pitch_range.present THEN Ok([i \in 1..25 |-> 47 + i])
  ELSE LET lowNote == noteToMidi(section.pitch_range.low)
           highNote == noteToMidi(section.pitch_range.high)
       IN IF ~lowNote.ok \/ ~highNote.ok THEN Throw
          ELSE Ok([i \in 1..Max(0, highNote.v - lowNote.v + 1) |-> lowNote.v + i - 1])

\* availablePitches[i] for a 0-based i; undefined outside the array.
PitchAt(availablePitches, i) ==
  IF i >= 0 /\ i < Len(availablePitches) THEN availablePitches[i + 1] ELSE NotANumber

\* The next pitch of a breathing pattern for the draw seed / RandMod:
\* a scale step of -maxStep..maxStep, or without scale a chromatic step of
\* -2..2 clamped to the pool.
BreathingStep(currentPitch, scale, availablePitches, maxStep, seed) ==
  IF Len(scale) > 0
  THEN IF currentPitch = NotANumber THEN NotANumber
       ELSE getScaleStep(currentPitch, scale,
                         FloorScaled(seed, maxStep * 2 + 1) - maxStep)
  ELSE IF currentPitch = NotANumber \/ Len(availablePitches) = 0 THEN NotANumber
       ELSE Max(availablePitches[1],
                Min(availablePitches[Len(availablePitches)],
                    currentPitch + FloorScaled(seed, 5) - 2))

\* ---- gentle_breathing -----------------------------------------------------
BEATS_BETWEEN_NOTES == 3
SUSTAIN_FACTOR == 120
MAX_STEP_SIZE == 2

\* while (currentTime + noteDuration <= end_time)
RECURSIVE GentleBreathingLoop(_, _, _, _, _, _, _, _, _, _, _)
GentleBreathingLoop(currentTime, currentPitch, seed, scale, availablePitches, noteInterval, noteDuration, end_time, velocity, acc, iters) ==
  IF ~(currentTime + noteDuration <= end_time) THEN Applied(acc, iters)
  ELSE
    LET drawn == pseudoRandom(seed)
    IN GentleBreathingLoop(currentTime + noteInterval,
                           BreathingStep(currentPitch, scale, availablePitches,
                                         MAX_STEP_SIZE, drawn),
                           drawn, scale, availablePitches, noteInterval,
                           noteDuration, end_time, velocity,
                           Append(acc, Note(currentPitch, currentTime, noteDuration,
                                            velocity)),
                           iters + 1)

\* The pool is built by pushing into the array availablePitches refers to;
\* when pitches and scale are both empty that array is options.scale, so the
\* steps then walk the pool as a scale.
Apply_gentle_breathing(section, theme, tempo, scale, pitches) ==
  LET quarterNote == QuarterNote(tempo)
      noteInterval == BEATS_BETWEEN_NOTES * quarterNote
      noteDuration == Pct(quarterNote, SUSTAIN_FACTOR)
      pool == AvailablePitches(section, scale, pitches)
      stepScale == IF Len(pitches) > 0 THEN scale ELSE pool.v
  IN IF ~pool.ok THEN Raised
     ELSE GentleBreathingLoop(section.start_time,
                              PitchAt(pool.v, Len(pool.v) \div 2),
                              SeedOf(section.start_time), stepScale, pool.v,
                              noteInterval, noteDuration, section.end_time,
                              VelocityAvg(section, 70), <<>>, 0)

\* ---- moderate_breathing and its variants ----------------------------------
\* while (currentTime + noteDuration <= end_time): one draw humanizes the
\* interval, the next one chooses the step.
RECURSIVE BreathingLoop(_, _, _, _, _, _, _, _, _, _, _, _)
BreathingLoop(currentTime, currentPitch, seed, scale, availablePitches, baseNoteInterval, humanize, noteDuration, end_time, velocity, acc, iters) ==
  IF ~(currentTime + noteDuration <= end_time) THEN Applied(acc, iters)
  ELSE
    LET config == PATTERN_STRATEGIES.patterns.gentle_breathing
        drawn1 == pseudoRandom(seed)
        humanizedInterval == humanizeValue(baseNoteInterval, humanize, drawn1)
        drawn2 == pseudoRandom(drawn1)
    IN BreathingLoop(currentTime + humanizedInterval,
                     BreathingStep(currentPitch, scale, availablePitches,
                                   config.maxInterval, drawn2),
                     drawn2, scale, availablePitches, baseNoteInterval, humanize,
                     noteDuration, end_time, velocity,
                     Append(acc, Note(currentPitch, currentTime, noteDuration,
                                      velocity)),
                     iters + 1)

Breathing(spacingConfig, section, tempo, scale, pitches) ==
  LET config == PATTERN_STRATEGIES.patterns.gentle_breathing
      startTime == calculateLateEntryStart(section)
      quarterNote == QuarterNote(tempo)
      baseNoteInterval == Pct(quarterNote, spacingConfig.interval)
      noteDuration == Pct(quarterNote, config.noteDuration)
      adjustedVelocity ==
        applyVelocityModifier(VelocityAvg(section, 70), config.velocityModifier)
      pool == AvailablePitches(section, scale, pitches)
  IN IF ~pool.ok THEN Raised
     ELSE BreathingLoop(startTime, PitchAt(pool.v, Len(pool.v) \div 2),
                        SeedOf(startTime), scale, pool.v, baseNoteInterval,
                        spacingConfig.humanize, noteDuration, section.end_time,
                        adjustedVelocity, <<>>, 0)

Apply_moderate_breathing(section, theme, tempo, scale, pitches) ==
  Breathing(PATTERN_STRATEGIES.rhythmicSpacing.moderate_breathing,
            section, tempo, scale, pitches)

\* ---- harmonic_arpeggio ---------------------------------------------------
\* A JavaScript value used as a condition: the number 0 is falsy.
Truthy(noteName) == ~(noteName.kind = "num" /\ noteName.n = 0)

\* while (chord.length < 3) chord.push(chord[chord.length - 1] + 4)
RECURSIVE PadChord(_)
PadChord(chord) ==
  IF Len(chord) >= 3 THEN chord ELSE PadChord(Append(chord, chord[Len(chord)] + 4))

\* while (currentTime + noteValue <= end_time)
RECURSIVE ArpeggioLoop(_, _, _, _, _, _, _, _)
ArpeggioLoop(currentTime, patternIndex, arpeggioPattern, noteValue, noteDuration, end_time, velocity, acc) ==
  IF ~(currentTime + noteValue <= end_time) THEN Applied(acc, patternIndex)
  ELSE ArpeggioLoop(currentTime + noteValue, patternIndex + 1, arpeggioPattern,
                    noteValue, noteDuration, end_time, velocity,
                    Append(acc, Note(arpeggioPattern[(patternIndex % Len(arpeggioPattern)) + 1],
                                     currentTime, noteDuration, velocity)))

Apply_harmonic_arpeggio(section, theme, tempo, scale, pitches) ==
  LET config == PATTERN_STRATEGIES.patterns.harmonic_arpeggio
      startTime == calculateLateEntryStart(section)
      noteValue == Pct(QuarterNote(tempo), config.noteValue)
      noteDuration == Pct(noteValue, config.durationFactor)
      fromSection == section.scale.present /\ Truthy(section.scale.root)
      root == IF fromSection THEN noteToMidi(section.scale.root)
              ELSE IF Len(scale) > 0 THEN Ok(scale[1])
              ELSE IF Len(pitches) > 0 THEN Ok(pitches[1])
              ELSE Ok(48)
      chord == PadChord(buildChord(root.v, scale))
      arpeggioPattern ==
        [i \in 1..Len(config.pattern) |->
           chord[Min(config.pattern[i], Len(chord) - 1) + 1]]
      adjustedVelocity ==
        applyVelocityModifier(VelocityAvg(section, 80), config.velocityModifier)
  IN IF ~root.ok THEN Raised
     ELSE ArpeggioLoop(startTime, 0, arpeggioPattern, noteValue, noteDuration,
                       section.end_time, adjustedVelocity, <<>>)

\* ---- melodic_counterpoint -------------------------------------------------
\* Variant: the index is kept at or above 0 only.
CounterpointStep_unbounded(pitchIndex, ascending, notesSinceDirectionChange, motion, second, poolSize) ==
  LET config == PATTERN_STRATEGIES.patterns.melodic_counterpoint
      stepwise == DrawBelow(motion, config.stepwiseBias)
      leap == ~stepwise /\ DrawBelow(motion, config.stepwiseBias + config.leapProbability)
      moved == pitchIndex
               + (IF stepwise THEN (IF ascending THEN 1 ELSE -1)
                                   * (IF DrawBelow(second, 30) THEN 2 ELSE 1)
                  ELSE IF leap THEN (IF ascending THEN 1 ELSE -1)
                                    * (2 + FloorScaled(second, 2))
                  ELSE (IF ascending THEN -1 ELSE 1))
  IN [ pitchIndex |-> IF moved <= 0 THEN 0 ELSE moved,
       ascending |-> IF moved <= 0 THEN TRUE
                     ELSE (stepwise \/ leap) = ascending,
       notesSinceDirectionChange |-> notesSinceDirectionChange + 1,
       moved |-> moved ]

\* One pass of the loop body after addNote, for the draws motion and second
\* (second is the draw of the stepwise and of the leap branch): the move, the
\* periodic direction change and the bounce at the pool's ends. moved is the
\* index before it is brought back into the pool.
CounterpointStep(pitchIndex, ascending, notesSinceDirectionChange, motion, second, poolSize) ==
  LET config == PATTERN_STRATEGIES.patterns.melodic_counterpoint
      stepwise == DrawBelow(motion, config.stepwiseBias)
      leap == ~stepwise /\ DrawBelow(motion, config.stepwiseBias + config.leapProbability)
      leapSize == 2 + FloorScaled(second, 2)
      ascending1 == IF stepwise \/ leap THEN ascending ELSE ~ascending
      pitchMove ==
        IF stepwise THEN (IF ascending THEN 1 ELSE -1)
                         * (IF DrawBelow(second, 30) THEN 2 ELSE 1)
        ELSE IF leap THEN (IF ascending THEN leapSize ELSE -leapSize)
        ELSE (IF ascending1 THEN 1 ELSE -1)
      moved == pitchIndex + pitchMove
      periodic == notesSinceDirectionChange + 1 >= config.directionChangeEvery
      ascending2 == IF periodic THEN ~ascending1 ELSE ascending1
  IN [ pitchIndex |-> IF moved <= 0 THEN 0
                      ELSE IF moved >= poolSize - 1 THEN poolSize - 1 ELSE moved,
       ascending |-> IF moved <= 0 THEN TRUE
                     ELSE IF moved >= poolSize - 1 THEN FALSE ELSE ascending2,
       notesSinceDirectionChange |-> IF periodic THEN 0 ELSE notesSinceDirectionChange + 1,
       moved |-> moved ]

\* The pass with the draws of the generator: the second draw is made in the
\* stepwise and in the leap branch only.
CounterpointMove(pitchIndex, ascending, notesSinceDirectionChange, seed, poolSize) ==
  [ step |-> CounterpointStep(pitchIndex, ascending, notesSinceDirectionChange,
                              pseudoRandom(seed), pseudoRandom(pseudoRandom(seed)),
                              poolSize),
    seed |-> IF DrawBelow(pseudoRandom(seed),
                          PATTERN_STRATEGIES.patterns.melodic_counterpoint.stepwiseBias
                          + PATTERN_STRATEGIES.patterns.melodic_counterpoint.leapProbability)
             THEN pseudoRandom(pseudoRandom(seed)) ELSE pseudoRandom(seed) ]

\* while (currentTime + noteDuration <= end_time)
RECURSIVE CounterpointLoop(_, _, _, _, _, _, _, _, _, _, _)
CounterpointLoop(currentTime, pitchIndex, ascending, notesSinceDirectionChange, seed, availablePitches, noteInterval, noteDuration, end_time, velocity, acc) ==
  IF ~(currentTime + noteDuration <= end_time) THEN Applied(acc, Len(acc))
  ELSE
    LET m == CounterpointMove(pitchIndex, ascending, notesSinceDirectionChange, seed,
                              Len(availablePitches))
    IN CounterpointLoop(currentTime + noteInterval, m.step.pitchIndex,
                        m.step.ascending, m.step.notesSinceDirectionChange,
                        m.seed, availablePitches,
                        noteInterval, noteDuration, end_time, velocity,
                        Append(acc, Note(PitchAt(availablePitches, pitchIndex),
                                         currentTime, noteDuration, velocity)))

Apply_melodic_counterpoint(section, theme, tempo, scale, pitches) ==
  LET config == PATTERN_STRATEGIES.patterns.melodic_counterpoint
      startTime == calculateLateEntryStart(section)
      noteInterval == Pct(QuarterNote(tempo), config.noteInterval)
      noteDuration == Pct(noteInterval, config.noteDuration)
      adjustedVelocity ==
        applyVelocityModifier(VelocityAvg(section, 70), config.velocityModifier)
      pool == AvailablePitches(section, scale, pitches)
  IN IF ~pool.ok THEN Raised
     ELSE CounterpointLoop(startTime, Pct(Len(pool.v), config.startInRange), TRUE, 0,
                           SeedOf(startTime), pool.v, noteInterval, noteDuration,
                           section.end_time, adjustedVelocity, <<>>)

\* ---- decorative_flourish --------------------------------------------------
\* array.slice(from, to) with 0-based bounds
Slice(seq, from, to) == SubSeq(seq, from + 1, Min(to, Len(seq)))

\* Array.prototype.sort((a, b) => a - b)
RECURSIVE InsertSorted(_, _)
InsertSorted(sorted, x) ==
  IF sorted = <<>> THEN <<x>>
  ELSE IF x < Head(sorted) THEN <<x>> \o sorted
  ELSE <<Head(sorted)>> \o InsertSorted(Tail(sorted), x)

RECURSIVE SortNumbers(_)
SortNumbers(seq) ==
  IF seq = <<>> THEN <<>>
  ELSE InsertSorted(SortNumbers(SubSeq(seq, 1, Len(seq) - 1)), seq[Len(seq)])

\* while (flourishPitches.length < noteCount) push((last || 72) + 2)
RECURSIVE PadFlourish(_, _)
PadFlourish(flourishPitches, noteCount) ==
  IF Len(flourishPitches) >= noteCount THEN flourishPitches
  ELSE LET last == IF Len(flourishPitches) = 0 THEN 0
                   ELSE flourishPitches[Len(flourishPitches)]
           lastPitch == IF last = 0 THEN 72 ELSE last
       IN PadFlourish(Append(flourishPitches, lastPitch + 2), noteCount)

\* flourishPitches.forEach: a note that would overrun end_time is skipped
RECURSIVE FlourishForEach(_, _, _, _, _, _, _, _)
FlourishForEach(flourishPitches, index, currentTime, noteValue, noteDuration, end_time, velocity, acc) ==
  IF index > Len(flourishPitches) THEN acc
  ELSE IF currentTime + noteDuration > end_time
    THEN FlourishForEach(flourishPitches, index + 1, currentTime, noteValue,
                         noteDuration, end_time, velocity, acc)
  ELSE FlourishForEach(flourishPitches, index + 1, currentTime + noteValue, noteValue,
                       noteDuration, end_time, velocity,
                       Append(acc, Note(Min(127, Max(0, flourishPitches[index])),
                                        currentTime, noteDuration, velocity)))

Apply_decorative_flourish(section, theme, tempo, scale, pitches) ==
  LET config == PATTERN_STRATEGIES.patterns.decorative_flourish
      noteCount == config.noteCount
      flourishStart ==
        IF section.late_entry # ABSENT /\ section.late_entry > 0
        THEN calculateLateEntryStart(section)
        ELSE section.start_time
             + Pct(section.end_time - section.start_time, config.appearTime)
      noteValue == Pct(QuarterNote(tempo), config.noteValue)
      noteDuration == Pct(noteValue, config.durationFactor)
      highNote == IF section.pitch_range.present
                  THEN noteToMidi(section.pitch_range.high) ELSE Throw
      chosen ==
        IF Len(pitches) >= noteCount
        THEN Ok(Slice(pitches, Pct(Len(pitches), 75), Pct(Len(pitches), 75) + noteCount))
        ELSE IF Len(scale) >= noteCount
        THEN Ok(Slice(scale, Pct(Len(scale), 75), Pct(Len(scale), 75) + noteCount))
        ELSE IF section.pitch_range.present
        THEN IF highNote.ok
             THEN Ok([i \in 1..noteCount |-> highNote.v - (noteCount - i) * 2])
             ELSE Throw
        ELSE Ok(<<72, 74, 76, 79>>)
      flourishPitches ==
        Slice(SortNumbers(PadFlourish(chosen.v, noteCount)), 0, noteCount)
      adjustedVelocity ==
        applyVelocityModifier(VelocityAvg(section, 80), config.velocityModifier)
  IN IF ~chosen.ok THEN Raised
     ELSE Applied(FlourishForEach(flourishPitches, 1, flourishStart, noteValue,
                                  noteDuration, section.end_time, adjustedVelocity,
                                  <<>>), 0)

\* ---- minimal_accents ------------------------------------------------------
\* while (currentTime + noteDuration <= end_time): the draws choose the pitch,
\* the base interval and its humanization.
RECURSIVE AccentsLoop(_, _, _, _, _, _, _, _)
AccentsLoop(currentTime, seed, availablePitches, noteDuration, end_time, velocity, acc, iters) ==
  IF ~(currentTime + noteDuration <= end_time) THEN Applied(acc, iters)
  ELSE
    LET config == PATTERN_STRATEGIES.patterns.minimal_accents
        spacingConfig == PATTERN_STRATEGIES.rhythmicSpacing.accents
        drawn1 == pseudoRandom(seed)
        pitch == PitchAt(availablePitches, FloorScaled(drawn1, Len(availablePitches)))
        drawn2 == pseudoRandom(drawn1)
        baseInterval ==
          config.minInterval
          + (((drawn2 * (config.maxInterval - config.minInterval)) \div RandMod) \div 100) * 100
        drawn3 == pseudoRandom(drawn2)
        interval == humanizeValue(baseInterval, spacingConfig.humanize, drawn3)
    IN AccentsLoop(currentTime + interval, drawn3, availablePitches, noteDuration,
                   end_time, velocity,
                   Append(acc, Note(pitch, currentTime, noteDuration, velocity)),
                   iters + 1)

Apply_minimal_accents(section, theme, tempo, scale, pitches) ==
  LET config == PATTERN_STRATEGIES.patterns.minimal_accents
      startTime == calculateLateEntryStart(section)
      noteDuration == Pct(config.duration, config.durationFactor)
      adjustedVelocity ==
        applyVelocityModifier(VelocityAvg(section, 70), config.velocityModifier)
      lowNote == IF section.pitch_range.present
                 THEN noteToMidi(section.pitch_range.low) ELSE Throw
      highNote == IF section.pitch_range.present
                  THEN noteToMidi(section.pitch_range.high) ELSE Throw
      fromRange == IF lowNote.ok /\ highNote.ok
                   THEN [i \in 1..Max(0, highNote.v - lowNote.v + 1) |-> lowNote.v + i - 1]
                   ELSE <<>>
      filled == IF Len(pitches) = 0 /\ section.pitch_range.present
                THEN fromRange ELSE pitches
      availablePitches == IF Len(filled) = 0
                          THEN <<60, 62, 64, 65, 67, 69, 71, 72>> ELSE filled
  IN IF Len(pitches) = 0 /\ section.pitch_range.present /\ (~lowNote.ok \/ ~highNote.ok)
     THEN Raised
     ELSE AccentsLoop(startTime, SeedOf(startTime) + 42, availablePitches,
                      noteDuration, section.end_time, adjustedVelocity, <<>>, 0)

\* ---- breathing variants whose files are not part of the sources ---------
Apply_sparse_breathing(section, theme, tempo, scale, pitches) ==
  Breathing(PATTERN_STRATEGIES.rhythmicSpacing.breathing,
            section, tempo, scale, pitches)

Apply_very_sparse_breathing(section, theme, tempo, scale, pitches) ==
  Breathing(PATTERN_STRATEGIES.rhythmicSpacing.very_sparse_breathing,
            section, tempo, scale, pitches)

Apply_active_breathing(section, theme, tempo, scale, pitches) ==
  Breathing(PATTERN_STRATEGIES.rhythmicSpacing.active_breathing,
            section, tempo, scale, pitches)

\* ------------------------------------------------------------------------
\* pattern-registry.js
\* ------------------------------------------------------------------------
thematicPatterns ==
  { "thematic_statement", "thematic_fragmented", "thematic_extended",
    "thematic_inverted", "thematic_retrograde" }

supportingPatterns ==
  { "harmonic_arpeggio", "melodic_counterpoint", "gentle_breathing",
    "sparse_breathing", "very_sparse_breathing", "moderate_breathing",
    "active_breathing", "foundation_pedal", "decorative_flourish",
    "minimal_accents", "silence" }

\* Both tables are object literals: `name in table` and `table[name]` also
\* find the InheritedProperties. The InheritedFunctions have an apply method,
\* which calls them (no note, no error); "__proto__" is an object without one.

\* Variant: no pattern counts as thematic.
isThematicPattern_none(patternType) == FALSE

\* patternType in thematicPatterns
isThematicPattern(patternType) ==
  patternType \in thematicPatterns \cup InheritedProperties

\* patternType in thematicPatterns || patternType in supportingPatterns
isValidPattern(patternType) ==
  patternType \in thematicPatterns \cup supportingPatterns \cup InheritedProperties

\* patternType in supportingPatterns
isSupportingPattern(patternType) ==
  patternType \in supportingPatterns \cup InheritedProperties

\* The pattern modules of the library that no table of the registry names:
\* each has an apply function and its own entry in PATTERN_STRATEGIES.
proceduralPatterns ==
  { "sustained_pad", "rhythmic_foundation", "hand_percussion", "accent_hits",
    "gentle_shaker" }

\* Object.keys(thematicPatterns) and Object.keys(supportingPatterns)
getAllPatternNames == thematicPatterns \cup supportingPatterns

\* thematicPatterns[patternType] || supportingPatterns[patternType] || null
getPattern(patternType) ==
  IF patternType \in thematicPatterns \cup supportingPatterns
    THEN [kind |-> "module", name |-> patternType]
  ELSE IF patternType \in InheritedFunctions
    THEN [kind |-> "function", name |-> patternType]
  ELSE IF patternType \in InheritedProperties
    THEN [kind |-> "object", name |-> patternType]
  ELSE [kind |-> "null", name |-> patternType]

\* patternHandler.apply(midi, options)
ApplyPattern(patternHandler, section, theme, tempo, scale, pitches) ==
  IF patternHandler.kind # "module" THEN Applied(<<>>, 0)
  ELSE CASE patternHandler.name = "thematic_statement" ->
              Apply_thematic_statement(section, theme, tempo, scale, pitches)
         [] patternHandler.name = "thematic_fragmented" ->
              Apply_thematic_fragmented(section, theme, tempo, scale, pitches)
         [] patternHandler.name = "thematic_extended" ->
              Apply_thematic_extended(section, theme, tempo, scale, pitches)
         [] patternHandler.name = "thematic_inverted" ->
              Apply_thematic_inverted(section, theme, tempo, scale, pitches)
         [] patternHandler.name = "thematic_retrograde" ->
              Apply_thematic_retrograde(section, theme, tempo, scale, pitches)
         [] patternHandler.name = "harmonic_arpeggio" ->
              Apply_harmonic_arpeggio(section, theme, tempo, scale, pitches)
         [] patternHandler.name = "melodic_counterpoint" ->
              Apply_melodic_counterpoint(section, theme, tempo, scale, pitches)
         [] patternHandler.name = "gentle_breathing" ->
              Apply_gentle_breathing(section, theme, tempo, scale, pitches)
         [] patternHandler.name = "sparse_breathing" ->
              Apply_sparse_breathing(section, theme, tempo, scale, pitches)
         [] patternHandler.name = "very_sparse_breathing" ->
              Apply_very_sparse_breathing(section, theme, tempo, scale, pitches)
         [] patternHandler.name = "moderate_breathing" ->
              Apply_moderate_breathing(section, theme, tempo, scale, pitches)
         [] patternHandler.name = "active_breathing" ->
              Apply_active_breathing(section, theme, tempo, scale, pitches)
         [] patternHandler.name = "foundation_pedal" ->
              Apply_foundation_pedal(section, theme, tempo, scale, pitches)
         [] patternHandler.name = "decorative_flourish" ->
              Apply_decorative_flourish(section, theme, tempo, scale, pitches)
         [] patternHandler.name = "minimal_accents" ->
              Apply_minimal_accents(section, theme, tempo, scale, pitches)
         [] OTHER -> Apply_silence(section, theme, tempo, scale, pitches)

\* ------------------------------------------------------------------------
\* midi-factory.js: validateSpec
\*   spec   = [kind, tempo, tracks, themeDefinition, metadata]
\*            kind "null" is the value null/undefined; tempo 0 is a missing tempo
\*   tracks = [kind, items]; a track is [kind, sections]; sections = [kind, items]
\*            kind "absent" is undefined, "object" a value that is no array
\* ------------------------------------------------------------------------
E_NULL == "Specification is null or undefined"
E_TEMPO == "Invalid or missing tempo (must be 20-300 BPM)"
E_TRACKS == "Missing or empty tracks array"
E_THEME == "Spec contains thematic patterns but no themeDefinition"
E_NOTES == "themeDefinition.notes must be an array"
E_RHYTHM == "themeDefinition.rhythm must be an array"
E_LENGTH == "themeDefinition.notes and themeDefinition.rhythm must have same length"

\* track.sections?.some(section => isThematicPattern(section.pattern_type)):
\* "true", "false", or "throw" (a TypeError) - some() stops at the first true.
RECURSIVE SectionsSome(_, _)
SectionsSome(sections, i) ==
  IF sections.kind = "absent" THEN "false"
  ELSE IF sections.kind # "array" THEN "throw"      \* .some is not a function
  ELSE IF i > Len(sections.items) THEN "false"
  ELSE IF sections.items[i].kind = "null" THEN "throw"  \* section.pattern_type of null
  ELSE IF isThematicPattern(sections.items[i].pattern_type) THEN "true"
  ELSE SectionsSome(sections, i + 1)

\* spec.tracks?.some(track => track.sections?.some(...))
RECURSIVE TracksSome(_, _)
TracksSome(tracks, i) ==
  IF tracks.kind = "absent" THEN "false"
  ELSE IF tracks.kind # "array" THEN "throw"        \* .some is not a function
  ELSE IF i > Len(tracks.items) THEN "false"
  ELSE IF tracks.items[i].kind = "null" THEN "throw"    \* track.sections of null
  ELSE LET r == SectionsSome(tracks.items[i].sections, 1)
       IN IF r = "false" THEN TracksSome(tracks, i + 1) ELSE r

\* x?.length: -1 stands for undefined
LengthOf(x) == IF x.kind = "array" THEN Len(x.items) ELSE -1

\* The result: thrown (a TypeError left validateSpec; errors holds what had
\* been pushed until then), or the returned {isValid, errors}.
validateSpec(midiSpec) ==
  IF midiSpec.kind = "null"
  THEN [thrown |-> FALSE, isValid |-> FALSE, errors |-> <<E_NULL>>]
  ELSE
    LET e1 == IF midiSpec.tempo = 0 \/ midiSpec.tempo < 20 \/ midiSpec.tempo > 300
              THEN <<E_TEMPO>> ELSE <<>>
        e2 == IF midiSpec.tracks.kind # "array" \/ Len(midiSpec.tracks.items) = 0
              THEN <<E_TRACKS>> ELSE <<>>
        hasThematicPatterns == TracksSome(midiSpec.tracks, 1)
        theme == midiSpec.themeDefinition
        e3 == IF hasThematicPatterns = "true" /\ ~theme.present
              THEN <<E_THEME>> ELSE <<>>
        e4 == IF theme.present /\ theme.notes.kind # "array" THEN <<E_NOTES>> ELSE <<>>
        e5 == IF theme.present /\ theme.rhythm.kind # "array" THEN <<E_RHYTHM>> ELSE <<>>
        e6 == IF theme.present /\ LengthOf(theme.notes) # LengthOf(theme.rhythm)
              THEN <<E_LENGTH>> ELSE <<>>
        errors == e1 \o e2 \o e3 \o e4 \o e5 \o e6
    IN IF hasThematicPatterns = "throw"
       THEN [thrown |-> TRUE, isValid |-> FALSE, errors |-> e1 \o e2]
       ELSE [thrown |-> FALSE, isValid |-> (Len(errors) = 0), errors |-> errors]

\* ------------------------------------------------------------------------
\* midi-factory.js: the orchestrator
\* ------------------------------------------------------------------------
Entropies == {0, 1}

NotValidated == [called |-> FALSE, thrown |-> FALSE, isValid |-> FALSE, errors |-> <<>>]

\* errors.join("; ")
RECURSIVE Join(_)
Join(errors) ==
  IF Len(errors) = 0 THEN ""
  ELSE IF Len(errors) = 1 THEN errors[1]
  ELSE errors[1] \o "; " \o Join(Tail(errors))

\* generateMidi: const tempo = spec.tempo || 120; theme = spec.themeDefinition || null
sharedOptions == [tempo |-> IF spec.tempo = 0 THEN 120 ELSE spec.tempo,
                  theme |-> spec.themeDefinition]

\* midi.addTrack() of processTrack / of addMetadataTrack
NewTrack(trackIndex) ==
  [kind |-> "track", channel |-> (trackIndex - 1) % 16, notes |-> <<>>]
MarkerTrack == [kind |-> "metadata", channel |-> 0, notes |-> <<>>]

\* Where the forEach loops of generateMidi / processTrack go next.
HasTracks == spec.tracks.kind = "array" /\ Len(spec.tracks.items) > 0
\* Variant: the track loop ends after its first track.
AfterTrack_stop(t) == "MetadataTrack"

AfterTrack(t) == IF t < Len(spec.tracks.items) THEN "PerTrack" ELSE "MetadataTrack"

\* Variant: apply() called outside the try block.
TryApply_uncaught(pattern_type, r) ==
  IF r.hung THEN [kind |-> "hung", reason |-> pattern_type, notes |-> <<>>]
  ELSE IF r.thrown THEN [kind |-> "thrown", reason |-> "Error", notes |-> <<>>]
  ELSE [kind |-> "applied", reason |-> pattern_type, notes |-> r.notes]

\* try { patternHandler.apply(midi, options) } catch (err) { console.error }
TryApply(pattern_type, r) ==
  IF r.hung THEN [kind |-> "hung", reason |-> pattern_type, notes |-> <<>>]
  ELSE IF r.thrown THEN [kind |-> "error", reason |-> pattern_type, notes |-> r.notes]
  ELSE [kind |-> "applied", reason |-> pattern_type, notes |-> r.notes]

\* let scale = []; if (section.scale) { try { getScale(noteToMidi(root), type || "major") } catch {} }
SectionScale(section) ==
  LET rootMidi == noteToMidi(section.scale.root)
  IN IF section.scale.present /\ rootMidi.ok
     THEN LET scale == getScale(rootMidi.v, IF section.scale.type = "" THEN "major"
                                            ELSE section.scale.type)
          IN IF scale.ok THEN scale.v ELSE <<>>
     ELSE <<>>

\* let pitches = []; if (section.pitch_range) { try { getPitchesInRange(...) } catch {} }
SectionPitches(section) ==
  LET inRange == getPitchesInRange(section.pitch_range, SectionScale(section))
  IN IF section.pitch_range.present /\ inRange.ok THEN inRange.v ELSE <<>>

\* processSection up to the return of patternHandler.apply:
\*   kind "thrown" (const { pattern_type } = section of a null section, outside
\*   every try), "skipped" (with the reason), "applied", "error" (caught), "hung"
SectionOutcome(section, theme, tempo) ==
  LET pattern_type == section.pattern_type
      patternHandler == getPattern(pattern_type)
      skip(reason) == [kind |-> "skipped", reason |-> reason, notes |-> <<>>]
  IN IF section.kind = "null"
       THEN [kind |-> "thrown", reason |-> "TypeError", notes |-> <<>>]
     ELSE IF pattern_type = "" THEN skip("missing pattern_type")
     ELSE IF ~isValidPattern(pattern_type) THEN skip("unknown pattern type")
     ELSE IF patternHandler.kind \in {"null", "object"} THEN skip("invalid handler")
     ELSE IF isThematicPattern(pattern_type) /\ ~theme.present
       THEN skip("requires a theme")
     ELSE TryApply(pattern_type,
                   ApplyPattern(patternHandler, section, theme, tempo,
                                SectionScale(section), SectionPitches(section)))

\* ---- entry points ---------------------------------------------------------
\* const midiSpec = spec.midi_spec || spec; validateSpec; throw or generateMidi
Create(name) ==
  /\ pc = "Start"
  /\ entry' = name
  /\ IF spec.kind = "null"
     THEN /\ pc' = "Thrown"
          /\ err' = "TypeError"
          /\ validation' = validation
     ELSE LET v == validateSpec(spec)
          IN /\ validation' = [called |-> TRUE, thrown |-> v.thrown,
                               isValid |-> v.isValid, errors |-> v.errors]
             /\ IF v.thrown THEN pc' = "Thrown" /\ err' = "TypeError"
                ELSE IF ~v.isValid
                  THEN /\ pc' = "Rejected"
                       /\ err' = "Invalid specification: " \o Join(v.errors)
                ELSE pc' = "Init" /\ err' = err
  /\ UNCHANGED <<spec, ti, si, out, events, runs, firstOut, entropy>>

CreateMidiFromSpec == Create("createMidiFromSpec")

CreateMidiObjectFromSpec == Create("createMidiObjectFromSpec")

\* A caller that uses generateMidi directly.
CallGenerateMidi ==
  /\ pc = "Start"
  /\ entry' = "generateMidi"
  /\ pc' = "Init"
  /\ UNCHANGED <<spec, ti, si, out, validation, err, events, runs, firstOut, entropy>>

\* ---- generateMidi ---------------------------------------------------------
\* new Midi(), the header, the shared constants
GenerateMidi ==
  /\ pc = "Init"
  /\ IF spec.kind = "null"
     THEN pc' = "Thrown" /\ err' = "TypeError" /\ ti' = ti
     ELSE /\ err' = err
          /\ IF HasTracks THEN pc' = "PerTrack" /\ ti' = 1
             ELSE pc' = "MetadataTrack" /\ ti' = ti
  /\ UNCHANGED <<spec, entry, si, out, validation, events, runs, firstOut, entropy>>

ProcessTrack ==
  /\ pc = "PerTrack"
  /\ LET trackSpec == spec.tracks.items[ti]
     IN /\ out' = Append(out, NewTrack(ti))
        /\ IF trackSpec.kind = "null"
           THEN pc' = "Thrown" /\ err' = "TypeError" /\ ti' = ti /\ si' = si
           ELSE /\ err' = err
                /\ IF trackSpec.sections.kind = "array"
                      /\ Len(trackSpec.sections.items) > 0
                   THEN pc' = "PerSection" /\ si' = 1 /\ ti' = ti
                   ELSE pc' = AfterTrack(ti) /\ ti' = ti + 1 /\ si' = si
  /\ UNCHANGED <<spec, entry, validation, events, runs, firstOut, entropy>>

ProcessSection ==
  /\ pc = "PerSection"
  /\ LET sections == spec.tracks.items[ti].sections.items
     IN \E o \in {SectionOutcome(sections[si], sharedOptions.theme, sharedOptions.tempo)} :
        IF o.kind = "thrown"
        THEN /\ pc' = "Thrown" /\ err' = o.reason
             /\ UNCHANGED <<out, events, ti, si>>
        ELSE /\ err' = err
             /\ out' = [out EXCEPT ![Len(out)].notes = @ \o o.notes]
             /\ events' = Append(events, [track |-> ti, section |-> si,
                                          kind |-> o.kind, reason |-> o.reason,
                                          added |-> Len(o.notes)])
             /\ IF o.kind = "hung" THEN pc' = "Hung" /\ ti' = ti /\ si' = si
                ELSE IF si < Len(sections)
                  THEN pc' = "PerSection" /\ si' = si + 1 /\ ti' = ti
                ELSE pc' = AfterTrack(ti) /\ ti' = ti + 1 /\ si' = si
  /\ UNCHANGED <<spec, entry, validation, runs, firstOut, entropy>>

\* if (spec.metadata) addMetadataTrack(midi, spec.metadata); return midi
AddMetadataTrack ==
  /\ pc = "MetadataTrack"
  /\ out' = IF spec.metadata THEN Append(out, MarkerTrack) ELSE out
  /\ pc' = "Done"
  /\ UNCHANGED <<spec, entry, ti, si, validation, err, events, runs, firstOut, entropy>>

\* The same specification is generated a second time, in another state of
\* the outside world.
Rerun ==
  /\ pc = "Done"
  /\ runs = 1
  /\ runs' = 2
  /\ firstOut' = out
  /\ entropy' \in Entropies
  /\ pc' = "Init"
  /\ out' = <<>>
  /\ events' = <<>>
  /\ ti' = 0
  /\ si' = 0
  /\ UNCHANGED <<spec, entry, validation, err>>

Next ==
  \/ CreateMidiFromSpec
  \/ CreateMidiObjectFromSpec
  \/ CallGenerateMidi
  \/ GenerateMidi
  \/ ProcessTrack
  \/ ProcessSection
  \/ AddMetadataTrack
  \/ Rerun

\* ------------------------------------------------------------------------
\* Inputs
\* ------------------------------------------------------------------------
Seconds(n) == n * TicksPerSecond

NoScale == [present |-> FALSE, root |-> BadNote, type |-> ""]
ScaleOf(root, type) == [present |-> TRUE, root |-> root, type |-> type]
NoRange == [present |-> FALSE, low |-> BadNote, high |-> BadNote]
RangeOf(low, high) == [present |-> TRUE, low |-> low, high |-> high]

Section(pattern_type, start_time, end_time, late_entry, sequence, scale, pitch_range) ==
  [kind |-> "object", pattern_type |-> pattern_type, start_time |-> start_time,
   end_time |-> end_time, late_entry |-> late_entry, velocity_avg |-> ABSENT,
   sequence |-> sequence, scale |-> scale, pitch_range |-> pitch_range]

NullSection ==
  [kind |-> "null", pattern_type |-> "", start_time |-> 0, end_time |-> 0,
   late_entry |-> ABSENT, velocity_avg |-> ABSENT, sequence |-> FALSE,
   scale |-> NoScale, pitch_range |-> NoRange]

Track(sections) == [kind |-> "object", sections |-> sections]
NullTrack == [kind |-> "null", sections |-> Undefined]

NoTheme == [present |-> FALSE, notes |-> Undefined, rhythm |-> Undefined]
Theme(notes, rhythm) == [present |-> TRUE, notes |-> notes, rhythm |-> rhythm]

Specification(tempo, tracks, themeDefinition, metadata) ==
  [kind |-> "object", tempo |-> tempo, tracks |-> tracks,
   themeDefinition |-> themeDefinition, metadata |-> metadata]
NullSpecification ==
  [kind |-> "null", tempo |-> 0, tracks |-> Undefined,
   themeDefinition |-> NoTheme, metadata |-> FALSE]

SeqsUpTo(S, n) == UNION {[1..k -> S] : k \in 0..n}

\* The track lists of at most `tracks` tracks and `budget` sections in all,
\* over a pool of sections and a set of tracks without sections.
RECURSIVE TrackLists(_, _, _, _)
TrackLists(pool, bare, tracks, budget) ==
  IF tracks = 0 THEN {<<>>}
  ELSE {<<>>} \cup
       UNION { { <<t>> \o rest :
                   rest \in TrackLists(pool, bare, tracks - 1,
                                       budget - Len(t.sections.items)) } :
               t \in bare \cup {Track(Arr(ss)) : ss \in SeqsUpTo(pool, budget)} }

\* ---- the orchestrator's inputs ------------------------------------------
ThemeCEG == Theme(Arr(<<60, 64, 67>>), Arr(<<1, 1, 2>>))
ThemeShort == Theme(Arr(<<60, 62>>), Arr(<<1, 1>>))

Sections ==
  { Section("foundation_pedal", 0, Seconds(4), ABSENT, FALSE, NoScale,
            RangeOf(Name("C", "", 2), Name("C", "", 3))),
    Section("thematic_fragmented", Seconds(1), Seconds(5), ABSENT, TRUE,
            NoScale, NoRange),
    Section("harmonic_arpeggio", 0, Seconds(1), ABSENT, FALSE, NoScale, NoRange),
    Section("", 0, Seconds(4), ABSENT, FALSE, NoScale, NoRange),
    Section("jazz_solo", 0, Seconds(4), ABSENT, FALSE, NoScale, NoRange),
    Section("constructor", 0, Seconds(4), ABSENT, FALSE, NoScale, NoRange),
    NullSection }

Init ==
  /\ spec \in { Specification(120, Arr(ts), th, md) :
                  ts \in TrackLists(Sections, {NullTrack, Track(Undefined)},
                                    MaxTracks, MaxSections),
                  th \in {NoTheme, ThemeShort},
                  md \in BOOLEAN }
  /\ entry = "none"
  /\ pc = "Start"
  /\ ti = 0
  /\ si = 0
  /\ out = <<>>
  /\ validation = NotValidated
  /\ err = ""
  /\ events = <<>>
  /\ runs = 1
  /\ firstOut = <<>>
  /\ entropy = 0

Spec == Init /\ [][Next]_vars

\* ---- the pattern library's inputs ----------------------------------------
\* One track with one section: every registered pattern, on a long and on a
\* very short window, with and without late entry, scale and pitch range.
Windows == { <<TicksPerSecond \div 4, Seconds(4) + TicksPerSecond \div 4>>,
             <<Seconds(1), Seconds(1) + (12 * TicksPerSecond) \div 100>> }
LateEntries == {ABSENT, 0, 50, 100}
CMajor == ScaleOf(Name("C", "", 4), "major")
Contexts == { <<NoScale, NoRange>>,
              <<CMajor, NoRange>>,
              <<CMajor, RangeOf(Name("C", "", 4), Name("C", "", 5))>>,
              <<NoScale, RangeOf(Name("H", "", 4), Num(72))>>,
              <<NoScale, RangeOf(Num(124), Num(127))>> }
Tempos == {60, 120}
ThemeHigh == Theme(Arr(<<120, 124, 127, 125>>), Arr(<<1, 1, 1, 1>>))
ThemeEmpty == Theme(Arr(<<>>), Arr(<<>>))
ThemeBackwards == Theme(Arr(<<128, 128, 128>>), Arr(<<-1, -1, -1>>))
ThemeRest == Theme(Arr(<<60, 62, 64>>), Arr(<<1, 0, 1>>))
Themes == {NoTheme, ThemeCEG, ThemeHigh, ThemeEmpty, ThemeBackwards, ThemeRest}

PatternSections ==
  { Section(name, w[1], w[2], le, le = 50, c[1], c[2]) :
      name \in thematicPatterns \cup supportingPatterns,
      w \in Windows, le \in LateEntries, c \in Contexts }

ProceduralSections ==
  { Section(name, TicksPerSecond \div 4, Seconds(4) + TicksPerSecond \div 4,
            ABSENT, FALSE, c[1], c[2]) :
      name \in proceduralPatterns, c \in Contexts }

InitPatterns ==
  /\ spec \in { Specification(tempo, Arr(<<Track(Arr(<<section>>))>>), th, FALSE) :
                  tempo \in Tempos,
                  section \in PatternSections \cup ProceduralSections,
                  th \in Themes }
  /\ entry = "none"
  /\ pc = "Start"
  /\ ti = 0
  /\ si = 0
  /\ out = <<>>
  /\ validation = NotValidated
  /\ err = ""
  /\ events = <<>>
  /\ runs = 1
  /\ firstOut = <<>>
  /\ entropy = 0

SpecPatterns == InitPatterns /\ [][Next]_vars

\* ---- the validator's inputs ----------------------------------------------
\* Every shape of a specification: null, tempo missing or out of range,
\* tracks missing / no array / a list with null tracks, sections missing /
\* no array / a list with null sections, and the shapes of a theme.
ValidatorSections ==
  { Section("thematic_statement", 0, Seconds(4), ABSENT, FALSE, NoScale, NoRange),
    Section("silence", 0, Seconds(4), ABSENT, FALSE, NoScale, NoRange),
    Section("constructor", 0, Seconds(4), ABSENT, FALSE, NoScale, NoRange),
    NullSection }

ValidatorThemes ==
  { NoTheme, ThemeCEG, ThemeEmpty,
    Theme(Arr(<<60, 64, 67>>), Arr(<<1, 1>>)),
    Theme(NoArray, Arr(<<1, 1>>)),
    Theme(Arr(<<60, 64>>), NoArray),
    Theme(Arr(<<60, 64>>), Undefined),
    Theme(Undefined, Undefined) }

ValidatorTempos == {0, 120, 301}

InitValidator ==
  /\ spec \in {NullSpecification} \cup
              { Specification(tempo, tracks, th, FALSE) :
                  tempo \in ValidatorTempos,
                  tracks \in {Undefined, NoArray} \cup
                     { Arr(ts) :
                         ts \in TrackLists(ValidatorSections,
                                           {NullTrack, Track(Undefined), Track(NoArray)},
                                           MaxTracks, MaxSections) },
                  th \in ValidatorThemes }
  /\ entry = "none"
  /\ pc = "Start"
  /\ ti = 0
  /\ si = 0
  /\ out = <<>>
  /\ validation = NotValidated
  /\ err = ""
  /\ events = <<>>
  /\ runs = 1
  /\ firstOut = <<>>
  /\ entropy = 0

SpecValidator == InitValidator /\ [][Next]_vars

\* ---- the inputs of the worked examples ------------------------------------
\* One track with one section of thematic_statement, foundation_pedal or
\* thematic_fragmented: the windows, themes, ranges and velocities of the
\* documented examples and their neighbours.
Theme606264 == Theme(Arr(<<60, 62, 64>>), Arr(<<1, 1, 1>>))
ThemeLongMiddle == Theme(Arr(<<60, 62, 64>>), Arr(<<1, 4, 1>>))
ThemeLong == Theme(Arr(<<60, 62, 64, 65, 67>>), Arr(<<1, 2, 1, 1, 1>>))
ThemeDown == Theme(Arr(<<67, 64, 60>>), Arr(<<1, 1, 1>>))
ThemeFlat == Theme(Arr(<<60, 64, 60>>), Arr(<<1, 1, 1>>))
ThemeTop == Theme(Arr(<<124, 60, 127>>), Arr(<<1, 1, 2>>))

StatementSections ==
  { Section("thematic_statement", 0, w, le, FALSE, NoScale, NoRange) :
      w \in {(15 * TicksPerSecond) \div 10, Seconds(4)}, le \in {ABSENT, 50} }

Velocities == {ABSENT, 80, 20, 127}

PedalSections ==
  { [Section("foundation_pedal", 0, w, le, FALSE, c[1], c[2])
       EXCEPT !.velocity_avg = v] :
      w \in {Seconds(4), (12 * TicksPerSecond) \div 100},
      le \in {ABSENT, 50}, v \in Velocities,
      c \in { <<NoScale, RangeOf(Name("C", "", 2), Name("C", "", 3))>>,
              <<CMajor, RangeOf(Name("C", "", 4), Name("C", "", 5))>>,
              <<CMajor, NoRange>>,
              <<NoScale, NoRange>> } }

\* The two transformed statements on the windows of the statement.
TransformedSections ==
  { Section(name, 0, w, le, FALSE, NoScale, NoRange) :
      name \in {"thematic_inverted", "thematic_retrograde"},
      w \in {(15 * TicksPerSecond) \div 10, Seconds(4)}, le \in {ABSENT, 50} }

\* thematic_extended without a scale, on the scale of the theme, and on the
\* same scale rooted two octaves lower and two octaves higher.
ExtendedSections ==
  { Section("thematic_extended", 0, w, le, FALSE, scale, NoRange) :
      w \in {Seconds(4), Seconds(7)}, le \in {ABSENT, 50},
      scale \in { NoScale, CMajor, ScaleOf(Name("C", "", 2), "major"),
                  ScaleOf(Name("C", "", 6), "major") } }

\* The breathing patterns on a scale with a pitch range inside it.
BreathingSections ==
  { Section(name, 0, w, le, FALSE, CMajor, RangeOf(Name("C", "", 4), Name(high, "", o))) :
      name \in {"gentle_breathing", "moderate_breathing"},
      w \in {Seconds(4), Seconds(7)}, le \in {ABSENT, 50},
      high \in {"E"}, o \in {4, 5} }

FragmentedSections ==
  { Section("thematic_fragmented", 0, w, le, sequence, NoScale, NoRange) :
      w \in {Seconds(4), Seconds(7)}, le \in {ABSENT, 50}, sequence \in BOOLEAN }

InitAlgorithms ==
  /\ spec \in { Specification(tempo, Arr(<<Track(Arr(<<section>>))>>), th, FALSE) :
                  tempo \in Tempos,
                  section \in StatementSections \cup TransformedSections
                                \cup PedalSections \cup FragmentedSections
                                \cup ExtendedSections \cup BreathingSections,
                  th \in {Theme606264, ThemeLongMiddle, ThemeLong, ThemeTop,
                          ThemeDown, ThemeFlat} }
  /\ entry = "none"
  /\ pc = "Start"
  /\ ti = 0
  /\ si = 0
  /\ out = <<>>
  /\ validation = NotValidated
  /\ err = ""
  /\ events = <<>>
  /\ runs = 1
  /\ firstOut = <<>>
  /\ entropy = 0

SpecAlgorithms == InitAlgorithms /\ [][Next]_vars

\* ------------------------------------------------------------------------
\* The utilities called on their own: noteToMidi, midiToNote (and the round
\* trip noteToMidi(midiToNote(n))), getScale and calculateLateEntryStart.
\* spec holds the argument, entry the function, out the values returned.
\* ------------------------------------------------------------------------
UtilityUnchanged == UNCHANGED <<spec, ti, si, validation, events, runs, firstOut, entropy>>

CallNoteToMidi ==
  /\ pc = "Start"
  /\ spec.kind \in {"str", "num"}
  /\ entry' = "noteToMidi"
  /\ \E r \in {noteToMidi(spec)} :
       IF r.ok THEN pc' = "Done" /\ out' = <<r.v>> /\ err' = err
       ELSE pc' = "Thrown" /\ out' = out /\ err' = "Error"
  /\ UtilityUnchanged

CallMidiToNote ==
  /\ pc = "Start"
  /\ spec.kind = "num"
  /\ entry' = "midiToNote"
  /\ \E r \in {midiToNote(spec.n)} :
       IF r.ok THEN pc' = "Named" /\ out' = <<r.v>> /\ err' = err
       ELSE pc' = "Thrown" /\ out' = out /\ err' = "Error"
  /\ UtilityUnchanged

\* noteToMidi applied to the name midiToNote returned
NameToMidi ==
  /\ pc = "Named"
  /\ \E r \in {noteToMidi(out[1])} :
       IF r.ok THEN pc' = "Done" /\ out' = Append(out, r.v) /\ err' = err
       ELSE pc' = "Thrown" /\ out' = out /\ err' = "Error"
  /\ UNCHANGED entry
  /\ UtilityUnchanged

CallGetScale ==
  /\ pc = "Start"
  /\ spec.kind = "scale"
  /\ entry' = "getScale"
  /\ \E r \in {getScale(spec.root, spec.type)} :
       IF r.ok THEN pc' = "Done" /\ out' = r.v /\ err' = err
       ELSE pc' = "Thrown" /\ out' = out /\ err' = "TypeError"
  /\ UtilityUnchanged

CallCalculateLateEntryStart ==
  /\ pc = "Start"
  /\ spec.kind = "object"
  /\ entry' = "calculateLateEntryStart"
  /\ pc' = "Done"
  /\ out' = <<calculateLateEntryStart(spec)>>
  /\ err' = err
  /\ UtilityUnchanged

NextUtilities ==
  \/ CallNoteToMidi
  \/ CallMidiToNote
  \/ NameToMidi
  \/ CallGetScale
  \/ CallCalculateLateEntryStart

\* ---- the utilities' inputs ------------------------------------------------
NoteLetters == {"A", "B", "C", "D", "E", "F", "G", "a", "b", "c", "d", "e", "f", "g"}
Accidentals == {"", "#", "b"}
Octaves == {-2, -1, 0, 4, 9, 10}

\* The string of a note name: letter, accidental, octave.
Compose(letter, acc, octave) ==
  <<letter>> \o (IF acc = "" THEN <<>> ELSE <<acc>>) \o DecimalChars(octave)

MalformedNames ==
  { <<>>, <<"C">>, <<"4">>, <<"6", "0">>, <<"H", "4">>, <<"C", "#">>, <<"B", "b">>,
    <<"C", "-">>, <<"C", "4", "x">>, <<"C", "#", "#", "4">>, <<"C", "B", "4">>,
    <<"C", " ", "4">>, <<" ", "C", "4">>, <<"C", "4", ".", "5">>, <<"C", "+", "4">> }

PitchNumbers == (-2)..129

ScaleTypes == DOMAIN SCALE_INTERVALS \cup {"blues", "constructor"}
ScaleRequest(root, type) == [kind |-> "scale", root |-> root, type |-> type]

LateEntrySections ==
  { Section("silence", start, start + length, le, FALSE, NoScale, NoRange) :
      start \in {0, Seconds(10)},
      length \in {Seconds(10), (12 * TicksPerSecond) \div 100},
      le \in {ABSENT, -50, 0, 25, 50, 100, 150} }

InitUtilities ==
  /\ spec \in { Str(Compose(l, a, o)) : l \in NoteLetters, a \in Accidentals, o \in Octaves }
              \cup { Str(chars) : chars \in MalformedNames }
              \cup { Num(n) : n \in PitchNumbers }
              \cup { ScaleRequest(root, type) : root \in 0..127, type \in ScaleTypes }
              \cup LateEntrySections
  /\ entry = "none"
  /\ pc = "Start"
  /\ ti = 0
  /\ si = 0
  /\ out = <<>>
  /\ validation = NotValidated
  /\ err = ""
  /\ events = <<>>
  /\ runs = 1
  /\ firstOut = <<>>
  /\ entropy = 0

SpecUtilities == InitUtilities /\ [][NextUtilities]_vars

\* ------------------------------------------------------------------------
\* The loop of melodic_counterpoint under every sequence of draws. spec holds
\* availablePitches; out holds the loop's variables (pitchIndex, ascending,
\* notesSinceDirectionChange) at the addNote of the current pass, and the
\* index the last pass moved to before the bounds were applied.
\* ------------------------------------------------------------------------
MaxPool == 6

\* Pools of 1..MaxPool pitches
Pools == { [i \in 1..n |-> 59 + i] : n \in 1..MaxPool }

\* Draws (x RandMod) on both sides of every threshold of the loop body:
\* 0.3, 0.5 (leap size), stepwiseBias 0.7, stepwiseBias + leapProbability 0.9.
PassDraws == {0, 307, 308, 511, 512, 716, 717, 921, 922, 1023}

\* let pitchIndex = Math.floor(availablePitches.length * config.startInRange);
\* let ascending = true; let notesSinceDirectionChange = 0;
EnterCounterpoint ==
  /\ pc = "Start"
  /\ spec.kind = "array"
  /\ entry' = "melodic_counterpoint"
  /\ pc' = "Loop"
  /\ out' = << [ pitchIndex |-> Pct(Len(spec.items),
                                    PATTERN_STRATEGIES.patterns.melodic_counterpoint.startInRange),
                 ascending |-> TRUE,
                 notesSinceDirectionChange |-> 0,
                 moved |-> Pct(Len(spec.items),
                               PATTERN_STRATEGIES.patterns.melodic_counterpoint.startInRange) ] >>
  /\ UNCHANGED <<spec, ti, si, validation, err, events, runs, firstOut, entropy>>

\* One pass of the while loop, for any two draws.
PassCounterpoint ==
  /\ pc = "Loop"
  /\ \E motion \in PassDraws, second \in PassDraws :
       out' = << CounterpointStep(out[1].pitchIndex, out[1].ascending,
                                  out[1].notesSinceDirectionChange, motion, second,
                                  Len(spec.items)) >>
  /\ UNCHANGED <<spec, entry, pc, ti, si, validation, err, events, runs, firstOut, entropy>>

NextCounterpoint ==
  \/ EnterCounterpoint
  \/ PassCounterpoint

InitCounterpoint ==
  /\ spec \in { Arr(pool) : pool \in Pools }
  /\ entry = "none"
  /\ pc = "Start"
  /\ ti = 0
  /\ si = 0
  /\ out = <<>>
  /\ validation = NotValidated
  /\ err = ""
  /\ events = <<>>
  /\ runs = 1
  /\ firstOut = <<>>
  /\ entropy = 0

SpecCounterpoint == InitCounterpoint /\ [][NextCounterpoint]_vars

\* ------------------------------------------------------------------------
\* The output track.  track.addNote belongs to the MIDI library the
\* orchestrator imports; the note list of a track is kept in time order:
\* a note goes behind the last note whose time is not later than its own.
\* ------------------------------------------------------------------------
\* Index of the last entry of a time-ordered list with time <= value (0: none).
search(array, value) ==
  IF \E i \in 1..Len(array) : array[i].time <= value
  THEN CHOOSE i \in 1..Len(array) :
         /\ array[i].time <= value
         /\ \A j \in (i + 1)..Len(array) : array[j].time > value
  ELSE 0

\* Variant: the note list is the list of the addNote calls.
addNote_push(notes, note) == Append(notes, note)

addNote(notes, note) ==
  LET index == search(notes, note.time)
  IN SubSeq(notes, 1, index) \o <<note>> \o SubSeq(notes, index + 1, Len(notes))

\* The note list after the first n addNote calls of a track; every note
\* carries the number of its call.
RECURSIVE NotesAfter(_, _)
NotesAfter(calls, n) ==
  IF n = 0 THEN <<>>
  ELSE addNote(NotesAfter(calls, n - 1),
               [midi |-> calls[n].midi, time |-> calls[n].time,
                duration |-> calls[n].duration, velocity |-> calls[n].velocity,
                call |-> n])

\* track.notes of output track t
TrackNotes(t) == NotesAfter(out[t].notes, Len(out[t].notes))

\* ------------------------------------------------------------------------
\* Properties
\* ------------------------------------------------------------------------
\* The tracks of the specification and the sections of its track t, as the
\* orchestrator iterates them.
SpecTracks ==
  IF spec.kind = "object" /\ spec.tracks.kind = "array" THEN spec.tracks.items ELSE <<>>

SectionsOf(t) ==
  IF SpecTracks[t].kind = "object" /\ SpecTracks[t].sections.kind = "array"
  THEN SpecTracks[t].sections.items ELSE <<>>

\* The positions <<track, section>> of all sections, in specification order.
RECURSIVE PositionsFrom(_)
PositionsFrom(t) ==
  IF t > Len(SpecTracks) THEN <<>>
  ELSE [s \in 1..Len(SectionsOf(t)) |-> <<t, s>>] \o PositionsFrom(t + 1)

EventPositions == [k \in 1..Len(events) |-> <<events[k].track, events[k].section>>]

Validated == entry \in {"createMidiFromSpec", "createMidiObjectFromSpec"}

HasThematicSection ==
  \E t \in 1..Len(SpecTracks) : \E s \in 1..Len(SectionsOf(t)) :
    /\ SectionsOf(t)[s].kind = "object"
    /\ SectionsOf(t)[s].pattern_type \in thematicPatterns

HasNull ==
  \E t \in 1..Len(SpecTracks) :
    \/ SpecTracks[t].kind = "null"
    \/ \E s \in 1..Len(SectionsOf(t)) : SectionsOf(t)[s].kind = "null"

IsPrefix(a, b) == Len(a) <= Len(b) /\ SubSeq(b, 1, Len(a)) = a

\* The step of the loops after section (ti, si) has been dealt with.
Advances ==
  IF si < Len(SectionsOf(ti))
  THEN pc' = "PerSection" /\ ti' = ti /\ si' = si + 1
  ELSE /\ ti' = ti + 1
       /\ pc' = IF ti < Len(SpecTracks) THEN "PerTrack" ELSE "MetadataTrack"

\* C1: for every registered pattern, every section with end_time > start_time,
\* a late_entry in [0,1] and a tempo in [20,300], every note the section adds
\* ends within the section: time + duration <= end_time.
C1_NotesEndWithinSection ==
  \A t \in 1..Len(out) :
    (out[t].kind = "track" /\ Len(SectionsOf(t)) = 1) =>
      LET section == SectionsOf(t)[1]
      IN (/\ section.kind = "object"
          /\ section.pattern_type \in getAllPatternNames
          /\ section.end_time > section.start_time
          /\ section.late_entry \in 0..100
          /\ sharedOptions.tempo \in 20..300)
         => \A i \in 1..Len(out[t].notes) :
              out[t].notes[i].time + out[t].notes[i].duration <= section.end_time

\* C2: the createMidi* entry points call generateMidi only after validateSpec
\* returned isValid = true; for an invalid specification they raise the one
\* error that joins all violation messages, and no track or note is created.
C2_InvalidSpecIsRejected ==
  (Validated /\ pc # "Start") =>
    /\ validation.called
    /\ ~validation.thrown
    /\ \/ validation.isValid
       \/ /\ pc = "Rejected"
          /\ err = "Invalid specification: " \o Join(validation.errors)
          /\ out = <<>>

\* A section whose pattern is applied and raises an error.
Raises(section) ==
  /\ section.kind = "object"
  /\ getPattern(section.pattern_type).kind = "module"
  /\ (section.pattern_type \in thematicPatterns => sharedOptions.theme.present)
  /\ ApplyPattern(getPattern(section.pattern_type), section, sharedOptions.theme,
                  sharedOptions.tempo, SectionScale(section),
                  SectionPitches(section)).thrown

HasRaisingSection ==
  \E t \in 1..Len(SpecTracks) : \E s \in 1..Len(SectionsOf(t)) : Raises(SectionsOf(t)[s])

C3_ErrorStep ==
  (pc = "PerSection" /\ Raises(SectionsOf(ti)[si])) =>
    /\ err' = err
    /\ Advances
    /\ Len(out') = Len(out)
    /\ \A k \in 1..Len(out) : IsPrefix(out[k].notes, out'[k].notes)

C3_Completes ==
  /\ (HasRaisingSection /\ ~HasNull) => pc \notin {"Thrown", "Hung"}
  /\ pc = "Done" => EventPositions = PositionsFrom(1)

\* C3: an error a pattern raises in a section is caught: no error leaves
\* generateMidi, the notes added before stay as they are, the loops go on
\* to the next section or track, generateMidi never stops in Thrown or Hung
\* because of it, and in Done every section of every track was processed.
C3_PatternErrorsAreCaught == [][C3_ErrorStep]_vars /\ [](C3_Completes)

C3_Witness ==
  /\ pc = "Done"
  /\ Len(events) = 2
  /\ events[1].kind = "error"
  /\ events[2].kind = "applied"
  /\ events[2].added > 0

\* A section processSection must leave out: no pattern_type, a pattern_type
\* that is not registered, or a thematic pattern without a theme.
Unplayable(section) ==
  /\ section.kind = "object"
  /\ \/ section.pattern_type = ""
     \/ section.pattern_type \notin getAllPatternNames
     \/ section.pattern_type \in thematicPatterns /\ ~sharedOptions.theme.present

\* C4: processSection adds no note and raises no error for a section without
\* pattern_type, with an unregistered pattern_type, or with a thematic
\* pattern when there is no theme; generation continues with the next section.
C4_UnplayableSectionsAreSkipped ==
  [][(pc = "PerSection" /\ Unplayable(SectionsOf(ti)[si])) =>
       /\ out' = out
       /\ err' = err
       /\ Advances
       /\ Len(events') = Len(events) + 1
       /\ events'[Len(events')].kind \in {"skipped", "applied"}
       /\ events'[Len(events')].added = 0]_vars

C4_Witness ==
  /\ pc = "Done"
  /\ Len(events) = 2
  /\ events[1].reason = "requires a theme"
  /\ events[2].kind = "applied"
  /\ events[2].added > 0

C6_AcceptedSpecTerminates ==
  (Validated /\ validation.called /\ validation.isValid) => pc # "Hung"

\* C7: validateSpec never throws, whatever the shape of its input; it returns
\* isValid and the list of errors, and isValid holds exactly if the list is empty.
C7_ValidateSpecNeverThrows ==
  /\ ~validation.thrown
  /\ validation.called => (validation.isValid <=> validation.errors = <<>>)

\* C8: every accepted specification that contains a thematic section has a
\* theme whose notes and rhythm are arrays of equal, non-zero length.
C8_AcceptedThemeIsWellFormed ==
  (validation.called /\ validation.isValid /\ HasThematicSection) =>
    /\ spec.themeDefinition.present
    /\ spec.themeDefinition.notes.kind = "array"
    /\ spec.themeDefinition.rhythm.kind = "array"
    /\ Len(spec.themeDefinition.notes.items) = Len(spec.themeDefinition.rhythm.items)
    /\ Len(spec.themeDefinition.notes.items) > 0

\* C9: a specification with a thematic section and no theme is answered with
\* isValid = false and the error naming the missing theme; a specification
\* with no thematic section and no theme does not get that error.
C9_MissingThemeIsReported ==
  (Validated /\ pc # "Start" /\ spec.kind = "object"
     /\ ~spec.themeDefinition.present) =>
    IF HasThematicSection
    THEN /\ validation.called /\ ~validation.thrown
         /\ ~validation.isValid
         /\ E_THEME \in Range(validation.errors)
    ELSE E_THEME \notin Range(validation.errors)

C10_Order ==
  /\ pc = "PerTrack" => Len(out) = ti - 1
  /\ pc = "PerSection" => Len(out) = ti
  /\ pc = "MetadataTrack" => Len(out) = Len(SpecTracks)
  /\ IsPrefix(EventPositions, PositionsFrom(1))
  /\ \A k \in 1..Len(out) :
       k <= Len(SpecTracks) => out[k].kind = "track" /\ out[k].channel = (k - 1) % 16
  /\ pc = "Done" =>
       /\ EventPositions = PositionsFrom(1)
       /\ Len(out) = Len(SpecTracks) + (IF spec.metadata THEN 1 ELSE 0)
       /\ spec.metadata => out[Len(out)].kind = "metadata"

C10_Step ==
  /\ pc = "Init" => pc' \in {"PerTrack", "MetadataTrack", "Thrown"}
  /\ pc = "PerTrack" => pc' \in {"PerSection", "PerTrack", "MetadataTrack", "Thrown"}
  /\ pc = "PerSection" =>
       pc' \in {"PerSection", "PerTrack", "MetadataTrack", "Thrown", "Hung"}
  /\ pc = "MetadataTrack" => pc' = "Done"
  /\ (pc' = "PerTrack" /\ pc # "Init") => ti' = ti + 1
  /\ (pc' = "PerSection" /\ pc = "PerSection") => ti' = ti /\ si' = si + 1

\* C10: generateMidi goes Init -> PerTrack (PerSection) -> MetadataTrack ->
\* Done: tracks in specification order, sections in list order, exactly one
\* output track per track of the specification (also when all its sections
\* are skipped), and the metadata track only when spec.metadata is present,
\* after all other tracks.
C10_GenerationOrder == [](C10_Order) /\ [][C10_Step]_vars

C10_Witness ==
  /\ pc = "Done"
  /\ spec.metadata
  /\ Len(out) = 3
  /\ out[3].kind = "metadata"
  /\ Len(events) = 2
  /\ events[1].track = 1 /\ events[1].kind = "skipped" /\ Len(out[1].notes) = 0
  /\ events[2].track = 2 /\ events[2].added > 0

ValidPitchInputs(section) ==
  /\ sharedOptions.theme.present =>
       /\ sharedOptions.theme.notes.kind = "array"
       /\ \A i \in 1..Len(sharedOptions.theme.notes.items) :
            sharedOptions.theme.notes.items[i] \in 0..127
  /\ section.scale.present => noteToMidi(section.scale.root).ok
  /\ section.pitch_range.present =>
       noteToMidi(section.pitch_range.low).ok /\ noteToMidi(section.pitch_range.high).ok

\* C12: every note a registered pattern adds has a pitch in [0,127], when
\* the theme notes, the scale root and the pitch range bounds of the section
\* are pitches in [0,127].
C12_PitchesAreInRange ==
  \A t \in 1..Len(out) :
    (out[t].kind = "track" /\ Len(SectionsOf(t)) = 1) =>
      LET section == SectionsOf(t)[1]
      IN (/\ section.kind = "object"
          /\ section.pattern_type \in getAllPatternNames
          /\ ValidPitchInputs(section))
         => \A i \in 1..Len(out[t].notes) : out[t].notes[i].midi \in 0..127

\* The notes the section of event k added to its track: the calls behind
\* those of the track's earlier sections.
ContributionOf(k) ==
  LET t == events[k].track
      before == SumSeq([j \in 1..(k - 1) |->
                          IF events[j].track = t THEN events[j].added ELSE 0])
  IN SubSeq(out[t].notes, before + 1, before + events[k].added)

\* The notes a section adds when it is processed with the theme and the
\* tempo of the specification and nothing else.
NotesAlone(section) ==
  SectionOutcome(section, sharedOptions.theme, sharedOptions.tempo).notes

TheSection == SectionsOf(1)[1]
Processed(pattern_type) ==
  /\ Len(SpecTracks) = 1 /\ Len(SectionsOf(1)) = 1
  /\ TheSection.pattern_type = pattern_type
  /\ Len(events) = 1
Added == out[1].notes

\* Theme note i as the statement rule places it: at the effective start plus
\* the preceding rhythm values in quarter notes, sounding 0.95 of its value.
StatementTime(i) ==
  calculateLateEntryStart(TheSection)
  + SumSeq(SubSeq(sharedOptions.theme.rhythm.items, 1, i - 1))
    * QuarterNote(sharedOptions.tempo)
StatementDuration(i) ==
  Pct(sharedOptions.theme.rhythm.items[i] * QuarterNote(sharedOptions.tempo), 95)
StatementIndices ==
  SelectSeq([i \in 1..Len(sharedOptions.theme.notes.items) |-> i],
            LAMBDA i : StatementTime(i) + StatementDuration(i) <= TheSection.end_time)

\* C14: thematic_statement emits theme note i at (effective start + sum of
\* the preceding rhythm values x 60/tempo) with duration rhythm[i] x 60/tempo
\* x 0.95, and exactly the notes that end at or before end_time; for the
\* theme {notes:[60,62,64], rhythm:[1,1,1]}, tempo 120 and the section
\* [0,1.5] these are 2 notes, at 0 and 0.5.
C14_StatementPlacesThemeNotes ==
  Processed("thematic_statement") =>
    /\ Len(Added) = Len(StatementIndices)
    /\ \A k \in 1..Len(Added) :
         /\ k <= Len(StatementIndices)
         /\ Added[k].midi = sharedOptions.theme.notes.items[StatementIndices[k]]
         /\ Added[k].time = StatementTime(StatementIndices[k])
         /\ Added[k].duration = StatementDuration(StatementIndices[k])
    /\ (/\ sharedOptions.theme = Theme606264
        /\ sharedOptions.tempo = 120
        /\ TheSection.end_time = (15 * TicksPerSecond) \div 10
        /\ TheSection.late_entry = ABSENT)
       => /\ Len(Added) = 2
          /\ Added[1].time = 0
          /\ Added[2].time = TicksPerSecond \div 2

\* C15: foundation_pedal adds exactly one note per section, from the
\* effective start to sustainGap (0.05 s) before end_time, with a pitch from
\* the bottom quartile of the pitch pool and the velocity
\* clamp(velocity_avg - 25, 1, 127)/127; for the section [0,4], pitch_range
\* C2..C3, velocity_avg 80 at tempo 120: one note over [0, 3.95] with a
\* bottom-quartile pitch and a velocity below 80/127.
C15_PedalIsOneLowNote ==
  Processed("foundation_pedal") =>
    LET pool == SectionPitches(TheSection)
        velocity_avg == VelocityAvg(TheSection, 80)
    IN /\ Len(Added) = 1
       /\ Added[1].time = calculateLateEntryStart(TheSection)
       /\ Added[1].time + Added[1].duration =
            TheSection.end_time - (5 * TicksPerSecond) \div 100
       /\ Len(pool) > 0 =>
            \E i \in 1..Len(pool) : pool[i] = Added[1].midi /\ 4 * (i - 1) <= Len(pool)
       /\ Added[1].velocity = Max(1, Min(127, velocity_avg - 25))
       /\ (/\ TheSection.end_time = Seconds(4)
           /\ TheSection.late_entry = ABSENT
           /\ TheSection.pitch_range = RangeOf(Name("C", "", 2), Name("C", "", 3))
           /\ ~TheSection.scale.present
           /\ TheSection.velocity_avg = 80
           /\ sharedOptions.tempo = 120)
          => /\ Added[1].time = 0
             /\ Added[1].time + Added[1].duration = (395 * TicksPerSecond) \div 100
             /\ Added[1].midi \in 36..39
             /\ Added[1].velocity < 80

\* The fragment of thematic_fragmented (the first fragmentLength = 3 theme
\* notes), the time at which note i of repetition k is due, the pitch of
\* that note, and the number of repetitions that fit into the section.
Fragment == SubSeq(sharedOptions.theme.notes.items, 1, 3)
FragmentBeats == SubSeq(sharedOptions.theme.rhythm.items, 1, 3)
SlotTime(k, i) ==
  calculateLateEntryStart(TheSection)
  + (k * SumSeq(FragmentBeats) + SumSeq(SubSeq(FragmentBeats, 1, i - 1)))
    * QuarterNote(sharedOptions.tempo)
SlotPitch(k, i) == Fragment[i] + (IF TheSection.sequence THEN 2 * k ELSE 0)
Repetitions ==
  (TheSection.end_time - calculateLateEntryStart(TheSection))
    \div (SumSeq(FragmentBeats) * QuarterNote(sharedOptions.tempo))

\* C16: in thematic_fragmented note i of repetition k has the pitch
\* fragment[i] + k x 2 when sequence is true and fragment[i] when it is
\* false; a transposed pitch outside [0,127] is not added, and the notes
\* behind it stay at their time positions.
C16_FragmentsAreTransposed ==
  Processed("thematic_fragmented") =>
    /\ \A n \in 1..Len(Added) :
         \E k \in 0..(Repetitions - 1), i \in 1..3 :
           /\ Added[n].time = SlotTime(k, i)
           /\ Added[n].midi = SlotPitch(k, i)
    /\ \A k \in 0..(Repetitions - 1), i \in 1..3 :
         (SlotPitch(k, i) \in 0..127) <=>
           (\E n \in 1..Len(Added) : Added[n].time = SlotTime(k, i))
    /\ Len(Added) =
         Cardinality({s \in (0..(Repetitions - 1)) \X (1..3) :
                        SlotPitch(s[1], s[2]) \in 0..127})

\* Three repetitions in sequence over a theme near the top of the range: the
\* third repetition loses its first and its last note, the middle one stays.
C16_Witness ==
  /\ Processed("thematic_fragmented")
  /\ TheSection.sequence
  /\ Repetitions = 3
  /\ SlotPitch(2, 1) > 127 /\ SlotPitch(2, 3) > 127
  /\ Added[Len(Added)].midi = SlotPitch(2, 2)
  /\ Added[Len(Added)].time = SlotTime(2, 2)
  /\ Len(Added) = 6

\* The pitch class of a note name in its sharp spelling: the semitone of
\* the letter, one up for # and one down for b, within the octave.
LetterSemitone(letter) ==
  CASE letter \in {"C", "c"} -> 0 [] letter \in {"D", "d"} -> 2
    [] letter \in {"E", "e"} -> 4 [] letter \in {"F", "f"} -> 5
    [] letter \in {"G", "g"} -> 7 [] letter \in {"A", "a"} -> 9
    [] letter \in {"B", "b"} -> 11
PitchClass(letter, acc) ==
  (LetterSemitone(letter) + (IF acc = "#" THEN 1 ELSE IF acc = "b" THEN -1 ELSE 0)) % 12

\* The ways to read a string as letter, accidental and octave (none for a
\* malformed string).
ReadingsOf(chars) ==
  { t \in NoteLetters \X Accidentals \X ((-3)..11) : Compose(t[1], t[2], t[3]) = chars }

\* C17: for a well-formed note name (letter A-G in either case, optional #
\* or b, integer octave) noteToMidi returns (octave + 1) x 12 + the pitch
\* class of the sharp spelling, so C4 is 60 and Db4 equals C#4; for a
\* malformed string and for a result outside [0,127] it raises an error and
\* returns nothing.
C17_NoteToMidiFormula ==
  /\ noteToMidi(Str(<<"D", "b", "4">>)) = noteToMidi(Str(<<"C", "#", "4">>))
  /\ (entry = "noteToMidi" /\ spec.kind = "str") =>
       /\ \A t \in ReadingsOf(spec.chars) :
            LET midi == (t[3] + 1) * 12 + PitchClass(t[1], t[2])
            IN IF midi \in 0..127 THEN pc = "Done" /\ out = <<midi>> /\ err = ""
               ELSE pc = "Thrown" /\ out = <<>> /\ err # ""
       /\ ReadingsOf(spec.chars) = {} => pc = "Thrown" /\ out = <<>> /\ err # ""
       /\ spec.chars = <<"C", "4">> => out = <<60>>

C17_Witness ==
  /\ entry = "noteToMidi"
  /\ spec = Str(<<"d", "b", "4">>)
  /\ pc = "Done"
  /\ out = <<61>>

\* C18: noteToMidi(midiToNote(n)) = n for every integer n in [0,127],
\* the pitches 0..11 with the negative octave -1 in their name included: the
\* round trip never raises and gives back the number it started from.
C18_NameRoundTrip ==
  (entry = "midiToNote" /\ spec.kind = "num" /\ spec.n \in 0..127) =>
    /\ pc # "Thrown"
    /\ pc = "Named" => /\ Len(out) = 1
                       /\ out[1].kind = "str"
                       /\ out[1] = midiToNote(spec.n).v
    /\ pc = "Done" => /\ Len(out) = 2
                      /\ out[2] = spec.n

C18_Witness ==
  /\ entry = "midiToNote"
  /\ spec.kind = "num"
  /\ spec.n = 11
  /\ pc = "Done"
  /\ out = <<Str(<<"B", "-", "1">>), 11>>

\* The interval set the scale of a type is built from: the one of the type,
\* the major one for a type that is not in SCALE_INTERVALS.
IntervalSetOf(type) ==
  LET intervals == IF type \in DOMAIN SCALE_INTERVALS THEN SCALE_INTERVALS[type]
                   ELSE SCALE_INTERVALS["major"]
  IN { intervals[i] : i \in DOMAIN intervals }

\* The pitches of the scale of a type on a root: the pitches of [0,127], from
\* two octaves below the root to the end of the second octave above the
\* root's own, that lie on an interval of the type above the root.
ScalePitches(root, type) ==
  { p \in 0..127 : /\ p >= root - 24
                   /\ p <= root + 35
                   /\ (p - root) % 12 \in IntervalSetOf(type) }

\* C19: for every root in [0,127] and every scale type getScale returns a
\* strictly ascending list without duplicates of pitches in [0,127], each on
\* an interval of the scale type above the root (of the major scale for an
\* unknown type), with the root among them, covering the octaves from two
\* below to two above the root's own.
C19_ScaleIsWellFormed ==
  entry = "getScale" =>
    /\ pc = "Done"
    /\ \A i \in 1..(Len(out) - 1) : out[i] < out[i + 1]
    /\ \A i \in DOMAIN out : out[i] \in 0..127
    /\ { out[i] : i \in DOMAIN out } = ScalePitches(spec.root, spec.type)
    /\ \E i \in DOMAIN out : out[i] = spec.root

\* The same for the types other than the names every object inherits.
C19_OwnAndUnknownTypes ==
  (entry = "getScale" /\ spec.type \notin InheritedProperties) => C19_ScaleIsWellFormed

\* clamp(late_entry, 0, 1) in percent
ClampedPercent(late_entry) ==
  IF late_entry < 0 THEN 0 ELSE IF late_entry > 100 THEN 100 ELSE late_entry

\* C20: calculateLateEntryStart returns start_time + (end_time - start_time)
\* x clamp(late_entry, 0, 1), and start_time when late_entry is absent or
\* <= 0; for end_time > start_time the result lies in [start_time, end_time],
\* and it is 15 for start_time 10, end_time 20 and late_entry 0.5.
C20_LateEntryStart ==
  (entry = "calculateLateEntryStart" /\ pc = "Done") =>
    /\ Len(out) = 1
    /\ IF spec.late_entry = ABSENT THEN out[1] = spec.start_time
       ELSE /\ 100 * (out[1] - spec.start_time) =
                 (spec.end_time - spec.start_time) * ClampedPercent(spec.late_entry)
            /\ spec.late_entry <= 0 => out[1] = spec.start_time
    /\ spec.end_time > spec.start_time =>
         out[1] >= spec.start_time /\ out[1] <= spec.end_time
    /\ (spec.start_time = Seconds(10) /\ spec.end_time = Seconds(20) /\ spec.late_entry = 50) =>
         out[1] = Seconds(15)

C20_Witness ==
  /\ entry = "calculateLateEntryStart"
  /\ pc = "Done"
  /\ spec.start_time = Seconds(10)
  /\ spec.end_time = Seconds(20)
  /\ spec.late_entry = 150
  /\ out = <<Seconds(20)>>

\* C21: for a section with late_entry in (0,1], no registered pattern adds
\* a note whose time is earlier than start_time + (end_time - start_time) x
\* late_entry.
C21_NoNoteBeforeLateEntry ==
  \A t \in 1..Len(out) :
    (out[t].kind = "track" /\ Len(SectionsOf(t)) = 1) =>
      LET section == SectionsOf(t)[1]
      IN (/\ section.kind = "object"
          /\ section.pattern_type \in getAllPatternNames
          /\ section.late_entry \in 1..100)
         => \A i \in 1..Len(out[t].notes) :
              100 * (out[t].notes[i].time - section.start_time) >=
                (section.end_time - section.start_time) * section.late_entry

\* The sequence a statement pattern plays: the theme, the theme backwards,
\* or the theme mirrored at its first note (within [0,127]).
PlayedPitches ==
  LET notes == sharedOptions.theme.notes.items
  IN CASE TheSection.pattern_type = "thematic_retrograde" ->
            [i \in 1..Len(notes) |-> notes[Len(notes) + 1 - i]]
       [] TheSection.pattern_type = "thematic_inverted" ->
            [i \in 1..Len(notes) |->
               LET mirrored == notes[1] - (notes[i] - notes[1])
               IN IF mirrored < 0 THEN 0 ELSE IF mirrored > 127 THEN 127 ELSE mirrored]
       [] OTHER -> notes
PlayedRhythm ==
  LET rhythm == sharedOptions.theme.rhythm.items
  IN IF TheSection.pattern_type = "thematic_retrograde"
     THEN [i \in 1..Len(rhythm) |-> rhythm[Len(rhythm) + 1 - i]]
     ELSE rhythm

\* C22: the notes thematic_statement, thematic_inverted and
\* thematic_retrograde emit are a prefix of the sequence they play: after a
\* note dropped for overrunning end_time no later note is emitted, so
\* emitted note k is note k of the sequence and sits at the effective start
\* plus the sum of the preceding rhythm values.
C22_EmittedNotesAreAPrefix ==
  (\E name \in {"thematic_statement", "thematic_inverted", "thematic_retrograde"} :
     Processed(name)) =>
    /\ Len(Added) <= Len(PlayedPitches)
    /\ \A k \in 1..Len(Added) :
         /\ Added[k].midi = PlayedPitches[k]
         /\ Added[k].time =
              calculateLateEntryStart(TheSection)
              + SumSeq(SubSeq(PlayedRhythm, 1, k - 1)) * QuarterNote(sharedOptions.tempo)

\* The direction of the extension: the contour of the theme, ascending when
\* its first and last notes are equal.
ExtensionDirection ==
  LET notes == sharedOptions.theme.notes.items
  IN IF notes[Len(notes)] < notes[1] THEN -1 ELSE 1

\* The pitches of the scale of the section in [0,127]; every pitch counts
\* as a step of two semitones when the section has no scale.
NoStep == 0 - 1
StepBeyond(pitch) ==
  IF ~TheSection.scale.present
  THEN IF pitch + 2 * ExtensionDirection \in 0..127
       THEN pitch + 2 * ExtensionDirection ELSE NoStep
  ELSE LET root == noteToMidi(TheSection.scale.root).v
           beyond == { p \in 0..127 :
                         /\ (p - root) % 12 \in IntervalSetOf(TheSection.scale.type)
                         /\ IF ExtensionDirection = 1 THEN p > pitch ELSE p < pitch }
       IN IF beyond = {} THEN NoStep
          ELSE CHOOSE p \in beyond : \A q \in beyond : Abs(q - pitch) >= Abs(p - pitch)

\* The time the theme takes, and the tick of the extension: the average
\* rhythm value, both in quarter notes of the tempo.
ThemeTime ==
  SumSeq(sharedOptions.theme.rhythm.items) * QuarterNote(sharedOptions.tempo)
ExtensionTick ==
  ThemeTime \div Len(sharedOptions.theme.rhythm.items)

\* The theme ends within the section.
ThemeFits ==
  LET rhythm == sharedOptions.theme.rhythm.items
  IN calculateLateEntryStart(TheSection)
     + SumSeq(SubSeq(rhythm, 1, Len(rhythm) - 1)) * QuarterNote(sharedOptions.tempo)
     + Pct(rhythm[Len(rhythm)] * QuarterNote(sharedOptions.tempo), 95)
       <= TheSection.end_time

\* C23: thematic_extended plays the full theme once and only then emits
\* extension notes; each extension note is one scale step beyond the
\* previous pitch in the theme's contour direction (ascending when the
\* theme's first and last notes are equal), one per average-rhythm tick; the
\* extension stops when the section ends or a step would leave [0,127].
C23_ExtensionFollowsTheme ==
  Processed("thematic_extended") =>
    LET notes == sharedOptions.theme.notes.items
        rhythm == sharedOptions.theme.rhythm.items
        start == calculateLateEntryStart(TheSection)
        n == Len(notes)
        m == Len(Added)
    IN /\ m >= n
       /\ \A k \in 1..n :
            /\ Added[k].midi = notes[k]
            /\ Added[k].time =
                 start + SumSeq(SubSeq(rhythm, 1, k - 1)) * QuarterNote(sharedOptions.tempo)
       /\ \A k \in (n + 1)..m :
            /\ Added[k].midi = StepBeyond(Added[k - 1].midi)
            /\ Added[k].time = start + ThemeTime + (k - n - 1) * ExtensionTick
            /\ Added[k].duration = Pct(ExtensionTick, 95)
       /\ \/ start + ThemeTime + (m - n) * ExtensionTick + Pct(ExtensionTick, 95)
               > TheSection.end_time
          \/ StepBeyond(Added[m].midi) = NoStep

\* The pitch pool of a section with a scale and a pitch range: the scale
\* pitches inside [pitch_range.low, pitch_range.high], in ascending order.
PitchPool ==
  SortAscending({ p \in ScalePitches(noteToMidi(TheSection.scale.root).v,
                                     TheSection.scale.type) :
                    /\ p >= noteToMidi(TheSection.pitch_range.low).v
                    /\ p <= noteToMidi(TheSection.pitch_range.high).v })

\* C24: every note gentle_breathing and moderate_breathing emit for a
\* section with a scale and a pitch_range has a pitch of the section's pitch
\* pool (a scale pitch inside [pitch_range.low, pitch_range.high]), the
\* first one the middle element of the pool.
C24_BreathingStaysInPool ==
  ((Processed("gentle_breathing") \/ Processed("moderate_breathing"))
     /\ TheSection.scale.present /\ TheSection.pitch_range.present) =>
    /\ \A i \in 1..Len(Added) : Added[i].midi \in Range(PitchPool)
    /\ Len(Added) > 0 => Added[1].midi = PitchPool[(Len(PitchPool) \div 2) + 1]

\* The first note is the middle element of the pool.
C24_StartsInTheMiddle ==
  ((Processed("gentle_breathing") \/ Processed("moderate_breathing"))
     /\ TheSection.scale.present /\ TheSection.pitch_range.present /\ Len(Added) > 0) =>
    Added[1].midi = PitchPool[(Len(PitchPool) \div 2) + 1]

\* The pitch pool processSection hands to a pattern: the pitches inside the
\* pitch range, or the scale when there is no pitch range.
PoolOf(section) ==
  IF SectionPitches(section) # <<>> THEN SectionPitches(section) ELSE SectionScale(section)

\* The pitches of the top quartile of a pool: those at the 0-based indices
\* from floor(0.75 x pool size).
TopQuartile(pool) ==
  { pool[j] : j \in { i \in 1..Len(pool) : 4 * (i - 1) >= 3 * Len(pool) - 3 } }

\* C25: decorative_flourish emits at most noteCount (4) notes in ascending
\* pitch order, each pitch a member of the top quartile of the pitch pool
\* (index >= floor(0.75 x pool size)) whatever the size of the pool; the
\* burst starts at the late_entry position when late_entry > 0 and at 65% of
\* the section duration otherwise.
C25_FlourishFromTopQuartile ==
  Processed("decorative_flourish") =>
    /\ Len(Added) <= 4
    /\ \A i \in 1..(Len(Added) - 1) : Added[i].midi <= Added[i + 1].midi
    /\ PoolOf(TheSection) # <<>> =>
         \A i \in 1..Len(Added) : Added[i].midi \in TopQuartile(PoolOf(TheSection))
    /\ Len(Added) > 0 =>
         100 * (Added[1].time - TheSection.start_time) =
           (TheSection.end_time - TheSection.start_time)
           * (IF TheSection.late_entry # ABSENT /\ TheSection.late_entry > 0
              THEN ClampedPercent(TheSection.late_entry) ELSE 65)

\* C26: in melodic_counterpoint the pitch index is within [0, pool size - 1]
\* at every emitted note, for every pool of at least one pitch and every
\* sequence of draws, so every emitted pitch is a member of the pool; a move
\* that reaches or passes the bottom of the pool makes the direction
\* ascending, one that reaches or passes the top makes it descending.
C26_CounterpointStaysInPool ==
  (entry = "melodic_counterpoint" /\ pc = "Loop") =>
    LET pool == spec.items
        now == out[1]
    IN /\ now.pitchIndex >= 0
       /\ now.pitchIndex <= Len(pool) - 1
       /\ \E i \in 1..Len(pool) : pool[i] = PitchAt(pool, now.pitchIndex)
       /\ now.moved <= 0 => now.ascending
       /\ (now.moved > 0 /\ now.moved >= Len(pool) - 1) => ~now.ascending

\* A leap of three from the last but one pitch of a pool of four.
C26_Witness ==
  /\ entry = "melodic_counterpoint"
  /\ pc = "Loop"
  /\ Len(spec.items) = 4
  /\ out[1].moved = 5
  /\ out[1].pitchIndex = 3
  /\ ~out[1].ascending

\* The time the fragment takes: the sum of the first fragmentLength rhythm
\* values, in quarter notes of the tempo.
FragmentTime ==
  SumSeq(SubSeq(sharedOptions.theme.rhythm.items, 1, 3)) * QuarterNote(sharedOptions.tempo)

\* The repetitions that fit between the effective start and end_time.
FittingRepetitions ==
  (TheSection.end_time - calculateLateEntryStart(TheSection)) \div FragmentTime

\* No note of a fitting repetition is transposed out of [0,127].
NoPitchDropped ==
  \A k \in 0..(FittingRepetitions - 1), i \in 1..3 :
    sharedOptions.theme.notes.items[i] + (IF TheSection.sequence THEN 2 * k ELSE 0)
      \in 0..127

\* C27: thematic_fragmented starts a repetition only when the whole fragment
\* fits before end_time, so no emitted note ends after end_time and no
\* partial fragment is emitted; when no pitch is dropped the number of notes
\* is fragmentLength x floor((end_time - effective start) / fragment
\* duration), and each repetition starts one fragment duration after the
\* one before.
C27_WholeFragmentsOnly ==
  (Processed("thematic_fragmented") /\ events[1].kind = "applied"
     /\ FragmentTime > 0) =>
    /\ \A n \in 1..Len(Added) : Added[n].time + Added[n].duration <= TheSection.end_time
    /\ NoPitchDropped =>
         /\ Len(Added) = 3 * FittingRepetitions
         /\ \A k \in 0..(FittingRepetitions - 1) :
              3 * k + 1 <= Len(Added) =>
                Added[3 * k + 1].time =
                  calculateLateEntryStart(TheSection) + k * FragmentTime

\* The pattern_type of the section an event of the run belongs to.
EventPattern(e) ==
  spec.tracks.items[events[e].track].sections.items[events[e].section].pattern_type

\* C28: for every specification accepted by validateSpec no thematic pattern
\* algorithm raises an error during generateMidi: the validated theme
\* satisfies the precondition of each thematic algorithm, so no thematic
\* section of a valid specification is dropped.
C28_ValidThemeNeverRaises ==
  (validation.called /\ validation.isValid) =>
    \A e \in 1..Len(events) :
      isThematicPattern(EventPattern(e)) => events[e].kind # "error"

\* The semitones by which an accidental is said to shift the natural note.
AccidentalShift(acc) == IF acc = "#" THEN 1 ELSE IF acc = "b" THEN 0 - 1 ELSE 0

\* C29: an accidental shifts the natural note by exactly one semitone: for
\* every letter X and octave n, noteToMidi(X b n) = noteToMidi(X n) - 1 and
\* noteToMidi(X # n) = noteToMidi(X n) + 1 whenever both values are in
\* [0,127], the spellings Cb, Fb, E# and B# included.
C29_AccidentalIsOneSemitone ==
  (entry = "noteToMidi" /\ spec.kind = "str" /\ pc = "Done") =>
    \A t \in ReadingsOf(spec.chars) :
      LET natural == noteToMidi(Str(Compose(t[1], "", t[3])))
      IN natural.ok => out[1] = natural.v + AccidentalShift(t[2])

\* C30: every pattern name of the pattern library, the procedural patterns
\* sustained_pad, rhythmic_foundation, hand_percussion, accent_hits and
\* gentle_shaker included, is registered: the lookup returns its algorithm
\* and classifies it as procedural, and a section with that pattern_type is
\* dispatched to the algorithm instead of being skipped as unknown.
C30_ProceduralPatternsAreRegistered ==
  \A name \in proceduralPatterns :
    Processed(name) =>
      /\ getPattern(name).kind = "module"
      /\ isSupportingPattern(name)
      /\ isValidPattern(name)
      /\ events[1].kind = "applied"

====
